---- MODULE Spec2Model ----
(***************************************************************************)
(* A model of the reduction engine of saucery (src/saucery/reduction) and  *)
(* of the code that gathers its conclusions (src/saucery/sos).             *)
(*                                                                         *)
(* The module holds one specification per part of the engine; the          *)
(* variables of the other parts stay at their idle value:                  *)
(*   SpecDef   Definition.__init__ / Definition.setup (definition.py)      *)
(*   SpecPath  ReferencePath and its slices (reference/path.py)            *)
(*   SpecReg   the registry of References and Analyses, sources named in   *)
(*             it, and ChainReference (reductions.py, reference/chain.py)  *)
(*   SpecList  ReferencePathList: value and slice (reference/path.py)       *)
(*   SpecEval  reading results and normal of analyses, and gathering the   *)
(*             conclusions of a bundle                                     *)
(*   SpecCmp   the comparison analyses (analysis/analysis.py) over the     *)
(*             Comparison family                                           *)
(***************************************************************************)
EXTENDS Integers, Sequences, FiniteSets, TLC

VARIABLES
    defClass,   \* SpecDef: the field declarations of the Definition class
    registry,   \* SpecDef: the names held by the Reductions registry
    anonCount,  \* SpecDef: how many anonymous names uuid4() has handed out
    defResult,  \* SpecDef: the last construction: definition, outcome
    fileSize,   \* SpecPath: st_size of the file under the root ReferencePath
    fileOk,     \* SpecPath: whether the file can be stat()ed and opened
    paths,      \* SpecPath: a root ReferencePath and a chain of slices of it
    sliceCall,  \* SpecPath: the last call of slice(): arguments and outcome
    cmpIn,      \* SpecCmp: a comparison analysis and what its operands read
    cmpOut,     \* SpecCmp: what reading its results and normal gave
    refs,       \* SpecEval: the value of every registered Reference
    analyses,   \* SpecEval: Reductions._analyses, in insertion order
    lastRead,   \* SpecEval: the last reading of an Analysis: who, outcome
    gather,     \* SpecEval: the loop gathering the conclusions of a bundle
    files,      \* SpecList: the files under the paths of a ReferencePathList
    plist,      \* SpecList: ReferencePathList._paths
    listCall,   \* SpecList: the last call on the list: arguments and outcome
    regReferences,  \* SpecReg: Reductions._references, by name
    regAnalyses,    \* SpecReg: Reductions._analyses, by name
    regCall,  \* SpecReg: the last construction or resolution and its outcome
    newlines,  \* SpecLines: the positions of the file, from 1, that hold a newline
    execCache,  \* SpecExec: the files under analysis_files, by name
    execRef,  \* SpecExec: the ExecReference or JqReference constructed last
    execRead,  \* SpecExec: the reading of its value: what ran, what came of it
    linkTarget,  \* SpecFiles: where the symbolic link of the tree points
    fsCall,  \* SpecFiles: the last call of file(), fileglob() or pathlist
    bundle,  \* SpecSos: the bundle's work directory: persisted flags, files directory, squash image
    sosCall,  \* SpecSos: the last lifecycle call: its arguments, the state before it, what it returned
    location,  \* SpecPair: the definitions under the reductions location, in loading order
    contents,  \* SpecPair: what the file of each bundle holds
    instances,  \* SpecPair: the Reductions of each bundle: its dicts, its progress, its caches
    batch,  \* SpecProc: the arguments of Saucier.process and the step of each bundle that raises
    tasks,  \* SpecProc: for each selected bundle, where its task is and the steps applied to it
    processCall  \* SpecProc: where the call of process() is: running, returned, raised

defVars == <<defClass, registry, anonCount, defResult>>

pathVars == <<fileSize, fileOk, paths, sliceCall>>

cmpVars == <<cmpIn, cmpOut>>

evalVars == <<refs, analyses, lastRead, gather>>

listVars == <<files, plist, listCall>>

regVars == <<regReferences, regAnalyses, regCall>>

lineVars == <<newlines>>

execVars == <<execCache, execRef, execRead>>

fsVars == <<linkTarget, fsCall>>

sosVars == <<bundle, sosCall>>

pairVars == <<location, contents, instances>>

procVars == <<batch, tasks, processCall>>

vars == <<defVars, pathVars, cmpVars, evalVars, listVars, regVars, lineVars, execVars, fsVars, sosVars, pairVars, procVars>>

None == "None"

(***************************************************************************)
(* Bounds of the model.                                                    *)
(***************************************************************************)
\* how many anonymous definitions one registry gets
MaxAnon == 1

\* the largest file, in bytes
MaxFileLen == 2

(***************************************************************************)
(* definition.py: the field system.                                        *)
(*                                                                         *)
(* A Definition class declares fields (_fields), a default for some of     *)
(* them (_field_default) and, per field, the fields it conflicts with      *)
(* (_field_conflicts).  'name', 'type' and 'source' are declared by        *)
(* Definition._add_fields and have no default.  The classes of the source  *)
(* declare no conflicts, the mechanism is there for every class: the       *)
(* model draws the class declaration from every combination over two       *)
(* class-specific fields "f" and "g".  "u" is a field no class declares.   *)
(***************************************************************************)
BaseFields == {"name", "type", "source"}

ExtraFields == {"f", "g"}

UndeclaredField == "u"

ConflictDecls == SUBSET {<<"f", "g">>, <<"g", "f">>}

\* declared: the class-specific fields of _fields(); defaults: the fields
\* whose _field_default is not None; conflicts: <<a, b>> when b is listed in
\* _field_conflicts(a)
ClassDecls ==
    { c \in [declared : SUBSET ExtraFields,
             defaults : SUBSET ExtraFields,
             conflicts : ConflictDecls] : c.defaults \subseteq c.declared }

\* Definition.fields: the DefinitionField of every declared field
fields(cls) == BaseFields \cup cls.declared

\* DefinitionField.default is None
DefaultIsNone(cls, field) == field \notin cls.defaults

\* DefinitionField.conflicts
FieldConflicts(cls, field) == { p[2] : p \in { q \in cls.conflicts : q[1] = field } }

GivenNames == {"n1"}

\* the 'type' of a definition dict as Definition.__new__ sees it: the tag of
\* a concrete subclass, of an abstract one, of none, or no 'type' at all
TypeTags == {"concrete", "abstract", "unknown", "missing"}

\* A definition dict whose 'type' names a concrete class: the keys it holds
\* beside 'type' (the name under "name" when it has one), and whether one of
\* its values is not of its field's class.
Definitions ==
    [name : GivenNames \cup {None},
     others : SUBSET ({"source", UndeclaredField} \cup ExtraFields),
     badvalue : BOOLEAN]

\* self.keys() once Definition.__init__ has stored the name
keys(d, name) ==
    d.others \cup {"type"} \cup (IF name # None THEN {"name"} ELSE {})

\* Definition.__new__: the subclass the type tag selects, or an error
NewRaises(typetag) == typetag # "concrete"

\* str(uuid.uuid4()): a name no one else holds
Uuid(k) == "uuid" \o ToString(k)

\* check_invalid_fields
check_invalid_fields(cls, ks) == ks \ fields(cls) # {}

\* check_required_fields, asking only for the fields of Definition itself
check_required_fields_BaseOnly(cls, ks) ==
    ({ f \in fields(cls) : f \in BaseFields } \ ks) # {}

\* check_required_fields

check_required_fields(cls, ks) ==
    ({ f \in fields(cls) : DefaultIsNone(cls, f) } \ ks) # {}

\* check_conflicting_fields
check_conflicting_fields(cls, ks) ==
    \E field \in ks : \E conflict \in FieldConflicts(cls, field) : conflict \in ks

\* Definition.setup: the exception it raises, or "ok".  The type tag always
\* equals TYPE() here, __new__ having picked the class by it.  A value
\* that is not of the field's class makes DefinitionField.check call
\* isinstance() with None in the tuple of classes: a TypeError, which the
\* except clause of setup() does not catch.
setup(cls, ks, badvalue) ==
    IF check_invalid_fields(cls, ks) THEN "InvalidDefinitionError"
    ELSE IF check_required_fields(cls, ks) THEN "InvalidDefinitionError"
    ELSE IF check_conflicting_fields(cls, ks) THEN "InvalidDefinitionError"
    ELSE IF badvalue THEN "TypeError"
    ELSE "ok"

NoResult == [stage |-> "none"]

IdleDef ==
    /\ defClass = [declared |-> {}, defaults |-> {}, conflicts |-> {}]
    /\ registry = {}
    /\ anonCount = 0
    /\ defResult = NoResult

IdlePath ==
    /\ fileSize = 0
    /\ fileOk = FALSE
    /\ paths = <<>>
    /\ sliceCall = [stage |-> "none"]

IdleCmp ==
    /\ cmpIn = [kind |-> "none"]
    /\ cmpOut = [stage |-> "none"]

IdleEval ==
    /\ refs = <<>>
    /\ analyses = <<>>
    /\ lastRead = [stage |-> "none"]
    /\ gather = [state |-> "idle"]

IdleList ==
    /\ files = <<>>
    /\ plist = <<>>
    /\ listCall = [stage |-> "none"]

IdleReg ==
    /\ regReferences = <<>>
    /\ regAnalyses = <<>>
    /\ regCall = [op |-> "none"]

IdleLines ==
    newlines = {}

IdleExec ==
    /\ execCache = <<>>
    /\ execRef = [setup |-> "none"]
    /\ execRead = [stage |-> "none"]

IdleFiles ==
    /\ linkTarget = <<>>
    /\ fsCall = [op |-> "none"]

IdleSos ==
    /\ bundle = [open |-> FALSE]
    /\ sosCall = [op |-> "none"]

IdlePair ==
    /\ location = <<>>
    /\ contents = <<>>
    /\ instances = <<>>

IdleProc ==
    /\ batch = [parallel |-> 0]
    /\ tasks = <<>>
    /\ processCall = [stage |-> "none"]

InitDef ==
    /\ defClass \in ClassDecls
    /\ registry = {}
    /\ anonCount = 0
    /\ defResult = NoResult
    /\ IdlePath
    /\ IdleCmp
    /\ IdleEval
    /\ IdleList
    /\ IdleReg
    /\ IdleLines
    /\ IdleExec
    /\ IdleFiles
    /\ IdleSos
    /\ IdlePair
    /\ IdleProc

\* Definition(definition, reductions): __new__ refuses the type tag
ConstructRefused(typetag) ==
    /\ NewRaises(typetag)
    /\ defResult' = [stage |-> "new", typetag |-> typetag,
                     outcome |-> "InvalidDefinitionError"]
    /\ UNCHANGED <<defClass, registry, anonCount>>

\* Definition.__init__ with a name the registry holds: Reductions.__setitem__
\* raises, setup() is not reached
ConstructDuplicate(name) ==
    /\ name \in registry
    /\ defResult' = [stage |-> "register", name |-> name,
                     outcome |-> "InvalidDefinitionError"]
    /\ UNCHANGED <<defClass, registry, anonCount>>

\* Definition.__init__: the name is stored in the registry, then setup() runs
Construct(d, anonymous) ==
    /\ anonymous => anonCount < MaxAnon
    /\ LET name == IF anonymous THEN Uuid(anonCount + 1) ELSE d.name
           ks == keys(d, name)
       IN /\ name \notin registry
          /\ registry' = registry \cup {name}
          /\ anonCount' = IF anonymous THEN anonCount + 1 ELSE anonCount
          /\ defResult' = [stage |-> "setup", name |-> name, keys |-> ks,
                           badvalue |-> d.badvalue,
                           outcome |-> setup(defClass, ks, d.badvalue)]
    /\ UNCHANGED defClass

NextDef ==
    /\ \/ \E typetag \in TypeTags : ConstructRefused(typetag)
       \/ \E name \in GivenNames \cup {None} : ConstructDuplicate(name)
       \/ \E d \in Definitions : \E anonymous \in BOOLEAN : Construct(d, anonymous)
    /\ UNCHANGED <<pathVars, cmpVars, evalVars, listVars, regVars, lineVars, execVars, fsVars, sosVars, pairVars, procVars>>

SpecDef == InitDef /\ [][NextDef]_vars

(***************************************************************************)
(* C1: for every class declaration, when setup() runs on a definition that *)
(* holds a field the class does not declare, or lacks a declared field     *)
(* whose default is None, or holds two fields one of which is declared to  *)
(* conflict with the other, setup() raises a configuration error           *)
(* (InvalidDefinitionError or a subclass).                                 *)
(***************************************************************************)
HasUnknownField(r) ==
    \E k \in r.keys : k \notin BaseFields /\ k \notin defClass.declared

OmitsRequiredField(r) ==
    \E f \in BaseFields \cup defClass.declared :
        f \notin defClass.defaults /\ f \notin r.keys

HasConflictingFields(r) ==
    \E a \in r.keys : \E b \in r.keys : <<a, b>> \in defClass.conflicts

C1_InvalidDefinitionRaises ==
    (defResult.stage = "setup"
       /\ (HasUnknownField(defResult) \/ OmitsRequiredField(defResult)
             \/ HasConflictingFields(defResult)))
    => defResult.outcome = "InvalidDefinitionError"

C1_Witness ==
    /\ defResult.stage = "setup"
    /\ HasConflictingFields(defResult)
    /\ ~HasUnknownField(defResult)
    /\ ~OmitsRequiredField(defResult)
    /\ defResult.outcome = "InvalidDefinitionError"

(***************************************************************************)
(* C13: a construction that raises a configuration error leaves the        *)
(* registry holding exactly the names it held before the call.             *)
(***************************************************************************)
C13_FailedLeavesRegistry ==
    [][defResult'.outcome # "ok" => registry' = registry]_vars

(***************************************************************************)
(* reference/path.py: ReferencePath.                                       *)
(*                                                                         *)
(* paths[1] is a root ReferencePath (no _ref), as ReferencePathList        *)
(* creates it: its sos given, offset 0, length 0.  paths[i + 1] is         *)
(* paths[i].slice(o, l), so its _ref is paths[i].  A path is the record    *)
(* of its _offset, _length and _sos.  The file holds the bytes             *)
(* 1, 2, ..., fileSize, so a value tells which bytes of the file it is     *)
(* made of.                                                                *)
(***************************************************************************)
Max(a, b) == IF a >= b THEN a ELSE b

Min(a, b) == IF a <= b THEN a ELSE b

\* sys.maxsize, here the largest integer of the model checker: larger than
\* every length of the model
maxsize == 2147483647

\* the bytes of the file
FileBytes == [i \in 1..fileSize |-> i]

\* Python's s[a:b] for 0 <= a
PySlice(s, a, b) ==
    IF b <= a THEN <<>> ELSE SubSeq(s, a + 1, Min(b, Len(s)))

\* the fields ReferencePath.__new__ sets: _offset and _length are clamped
\* at 0, _sos is the sos argument (None, here FALSE, when slice() calls it)
NewPath(o, l, sos) == [off |-> Max(0, o), len |-> Max(0, l), sos |-> sos]

\* ReferencePath.sos of a path about to be made with _ref paths[i]:
\* self._sos or self._ref._sos, FALSE for None
sos(ps, i, given) == given \/ ps[i].sos

\* ReferencePath.offset, of paths[i]
RECURSIVE offset(_, _)
offset(ps, i) ==
    IF i > 1 THEN offset(ps, i - 1) + ps[i].off ELSE ps[i].off

\* ReferencePath.length, of paths[i]
RECURSIVE length(_, _)
length(ps, i) ==
    LET maxlen == IF ps[i].len # 0 THEN ps[i].len ELSE maxsize
    IN IF i > 1 THEN Max(Min(length(ps, i - 1) - ps[i].off, maxlen), 0)
       ELSE IF fileOk THEN Max(Min(fileSize - ps[i].off, maxlen), 0)
       ELSE 0

Bytes(b) == [kind |-> "bytes", bytes |-> b]

NoneValue == [kind |-> "None", bytes |-> <<>>]

Raised(e) == [kind |-> e, bytes |-> <<>>]

\* ReferencePath._value, of a root: seek(offset), read(_length or None);
\* None when the file cannot be opened
RootValue(p) ==
    IF ~fileOk THEN NoneValue
    ELSE Bytes(PySlice(FileBytes, p.off,
                       IF p.len # 0 THEN p.off + p.len ELSE fileSize))

\* ReferencePath.value, of paths[i]: a slice takes
\* _ref.value[offset:offset + length], which is a TypeError when _ref.value
\* is None
RECURSIVE value(_, _)
value(ps, i) ==
    IF i > 1
    THEN LET ref == value(ps, i - 1)
             o == offset(ps, i) - offset(ps, i - 1)
             end_offset == o + length(ps, i)
         IN IF ref.kind = "bytes" THEN Bytes(PySlice(ref.bytes, o, end_offset))
            ELSE IF ref.kind = "None" THEN Raised("TypeError")
            ELSE ref
    ELSE RootValue(ps[i])

\* the arguments of slice() the model draws from: before the start, inside
\* and past the end of the largest file
SliceArgs == (0 - 1) .. (MaxFileLen + 1)

InitPath ==
    /\ fileOk \in BOOLEAN
    /\ fileSize \in IF fileOk THEN 0..MaxFileLen ELSE {0}
    /\ paths = <<NewPath(0, 0, TRUE)>>
    /\ sliceCall = [stage |-> "none"]
    /\ IdleDef
    /\ IdleCmp
    /\ IdleEval
    /\ IdleList
    /\ IdleReg
    /\ IdleLines
    /\ IdleExec
    /\ IdleFiles
    /\ IdleSos
    /\ IdlePair
    /\ IdleProc

\* paths[i].slice(o, l): ReferencePath(self, offset=o, length=l).  __new__
\* ends by reading self.sospath, that is self.sos.workdir: the new path is
\* returned when its sos is found, and the chain goes on from it
Slice(i, o, l) ==
    /\ i \in 1..Len(paths)
    /\ sos(paths, i, FALSE)
    /\ paths' = Append(SubSeq(paths, 1, i), NewPath(o, l, FALSE))
    /\ sliceCall' = [stage |-> "done", of |-> i, o |-> o, l |-> l,
                     outcome |-> "ok"]
    /\ UNCHANGED <<fileSize, fileOk>>

\* paths[i].slice(o, l) when neither the new path nor paths[i] holds a sos:
\* self.sos is None and self.sos.workdir raises AttributeError in __new__
SliceRaises(i, o, l) ==
    /\ i \in 1..Len(paths)
    /\ ~sos(paths, i, FALSE)
    /\ sliceCall' = [stage |-> "done", of |-> i, o |-> o, l |-> l,
                     outcome |-> "AttributeError"]
    /\ UNCHANGED <<fileSize, fileOk, paths>>

NextPath ==
    /\ \E i \in 1..Len(paths) : \E o \in SliceArgs : \E l \in SliceArgs :
          \/ Slice(i, o, l)
          \/ SliceRaises(i, o, l)
    /\ UNCHANGED <<defVars, cmpVars, evalVars, listVars, regVars, lineVars, execVars, fsVars, sosVars, pairVars, procVars>>

SpecPath == InitPath /\ [][NextPath]_vars

\* the last call was p.slice(k, L) with k >= 0, on a path p = paths[of]
\* whose value is available
SlicedAValue ==
    /\ sliceCall.stage = "done"
    /\ sliceCall.o >= 0
    /\ sliceCall.l >= 0
    /\ value(paths, sliceCall.of).kind = "bytes"

\* the sum of the offsets given to the slices up to paths[i]
RECURSIVE SumOfOffsets(_, _)
SumOfOffsets(ps, i) == IF i = 0 THEN 0 ELSE SumOfOffsets(ps, i - 1) + ps[i].off

C10_RangeInsideFile ==
    fileOk => \A i \in 1..Len(paths) :
                  offset(paths, i) + length(paths, i) <= fileSize

(***************************************************************************)
(* C11: reading value of a path never raises, and is None for the root     *)
(* and for every slice of it when the file cannot be read.                 *)
(***************************************************************************)
C11_ValueNeverRaises ==
    \A i \in 1..Len(paths) :
        /\ value(paths, i).kind \in {"bytes", "None"}
        /\ ~fileOk => value(paths, i) = NoneValue

(***************************************************************************)
(* The Comparison family.  Its module (analysis/comparison.py) is not      *)
(* among the sources; the comparison analyses of analysis/analysis.py are  *)
(* its callers.  It is modelled after the specification, section 4.5.      *)
(*                                                                         *)
(* A text is a sequence of characters; None is the text NoneS.  The        *)
(* outcome of compare() is "True", "False" or "None" (unknown).            *)
(***************************************************************************)
NoneS == <<"None">>

ScalarValues == {<<"1">>, <<"2">>, <<" ", "1">>, <<"q">>}

\* str.strip() of a text of the model
RECURSIVE Strip(_)
Strip(t) ==
    IF t = <<>> THEN t
    ELSE IF Head(t) = " " THEN Strip(Tail(t))
    ELSE IF t[Len(t)] = " " THEN Strip(SubSeq(t, 1, Len(t) - 1))
    ELSE t

\* every run of whitespace taken as one space
RECURSIVE CollapseWhitespace(_)
CollapseWhitespace(t) ==
    IF Len(t) < 2 THEN t
    ELSE IF t[1] = " " /\ t[2] = " " THEN CollapseWhitespace(Tail(t))
    ELSE <<t[1]>> \o CollapseWhitespace(Tail(t))

\* StringComparison: optional strip, optional whitespace-collapse
StringNormalize(t, strip, ignore_whitespace) ==
    LET c == IF ignore_whitespace THEN CollapseWhitespace(t) ELSE t
    IN IF strip THEN Strip(c) ELSE c

Digits == {"1", "2"}

DigitValue(c) == IF c = "1" THEN 1 ELSE 2

\* NumberComparison: the integer a text is coerced to, or NoInt
NoInt == 0 - 1

ToInt(t) ==
    LET n == Strip(t)
    IN IF Len(n) = 1 /\ n[1] \in Digits THEN DigitValue(n[1]) ELSE NoInt

Tri(b) == IF b THEN "True" ELSE "False"

ScalarVariants == {"lt", "le", "eq", "ge", "gt"}

\* Comparison(analysis, a, b) of one of the scalar variants: unknown when an
\* operand is None or a number comparison cannot coerce an operand
ScalarCompare(variant, a, b, strip, ignore_whitespace) ==
    IF a = NoneS \/ b = NoneS THEN "None"
    ELSE IF variant = "eq"
    THEN Tri(StringNormalize(a, strip, ignore_whitespace)
               = StringNormalize(b, strip, ignore_whitespace))
    ELSE LET x == ToInt(a)
             y == ToInt(b)
         IN IF x = NoInt \/ y = NoInt THEN "None"
            ELSE IF variant = "lt" THEN Tri(x < y)
            ELSE IF variant = "le" THEN Tri(x <= y)
            ELSE IF variant = "ge" THEN Tri(x >= y)
            ELSE Tri(x > y)

\* a dict or None: [none |-> TRUE] is None
NoDict == [none |-> TRUE, d |-> <<>>]

Dict(d) == [none |-> FALSE, d |-> d]

\* dict.get(key): None when the key is absent
DictGet(d, key) == IF key \in DOMAIN d THEN d[key] ELSE NoneS

\* DictComparison: the fields it compares
DictComparisonFields(a, b, opts) ==
    (opts.fields
       \cup (IF opts.fields_from_a THEN DOMAIN a ELSE {})
       \cup (IF opts.fields_from_b THEN DOMAIN b ELSE {}))
      \ opts.ignore_fields

\* DictComparison: the scalar comparison of one field
DictFieldCompare(variant, a, b, field) ==
    ScalarCompare(variant, DictGet(a, field), DictGet(b, field), TRUE, TRUE)

failed_fields(variant, a, b, opts) ==
    { f \in DictComparisonFields(a, b, opts) :
          DictFieldCompare(variant, a, b, f) = "False" }

missing_fields(variant, a, b, opts) ==
    { f \in DictComparisonFields(a, b, opts) :
          DictFieldCompare(variant, a, b, f) = "None" }

\* DictComparison(analysis, a, b, comparison_class, **opts).compare()
DictCompare(variant, a, b, opts) ==
    IF a.none \/ b.none THEN "None"
    ELSE IF failed_fields(variant, a.d, b.d, opts) # {} THEN "False"
    ELSE IF missing_fields(variant, a.d, b.d, opts) # {} /\ ~opts.ignore_missing
    THEN "False"
    ELSE "True"

(***************************************************************************)
(* analysis/analysis.py: the comparison analyses.                          *)
(*                                                                         *)
(* cmpIn is one analysis together with what its source (and, for an        *)
(* indirect analysis, its 'to') names in the registry:                     *)
(*   "unregistered"  no Definition of that name                            *)
(*   "text"          a Reference that is no DictReference                  *)
(*   "dict"          a DictReference                                       *)
(* with the value or the dict of that Reference, which may be None.        *)
(***************************************************************************)
Keys == {"x", "y"}

DictValues == {<<"1">>, <<"2">>, <<"q">>}

Dicts == UNION { [S -> DictValues] : S \in SUBSET Keys }

\* what a name is in the registry, as far as a dict analysis can tell
DictSources ==
    {[ref |-> "unregistered", dict |-> NoDict], [ref |-> "text", dict |-> NoDict],
     [ref |-> "dict", dict |-> NoDict]}
      \cup { [ref |-> "dict", dict |-> Dict(d)] : d \in Dicts }

\* what a name is in the registry, as far as a text analysis can tell
TextSources ==
    {[ref |-> "unregistered", value |-> NoneS], [ref |-> "text", value |-> NoneS]}
      \cup { [ref |-> "text", value |-> v] : v \in ScalarValues }

\* Analysis.source_value: None when no Reference is registered
source_value(src) == IF src.ref = "unregistered" THEN NoneS ELSE src.value

\* Analysis.source_dict raises when the name is not registered (None has
\* no attribute 'dict') or the Reference is no DictReference
source_dict_raises(src) == src.ref # "dict"

\* Analysis.source_dict
source_dict(src) == src.dict

\* ComparisonAnalysis._normal, taking an unknown comparison for a failed one
ComparisonAnalysis_normal_AsBool(compare) ==
    IF compare = "True" THEN "True" ELSE "False"

\* ComparisonAnalysis._normal: what compare() returns
ComparisonAnalysis_normal(compare) == compare

\* DictAnalysis.comparison_kwargs without the analysis's ignore_fields
comparison_kwargs_NoIgnoreFields(an) ==
    [fields |-> an.fields,
     fields_from_a |-> an.fields_from_source,
     fields_from_b |-> an.fields_from_to,
     ignore_fields |-> {},
     ignore_missing |-> an.ignore_missing]

\* DictAnalysis.comparison_kwargs
comparison_kwargs(an) ==
    [fields |-> an.fields,
     fields_from_a |-> an.fields_from_source,
     fields_from_b |-> an.fields_from_to,
     ignore_fields |-> an.ignore_fields,
     ignore_missing |-> an.ignore_missing]

\* the analyses of the model: LtAnalysis .. GtAnalysis with EqAnalysis
\* (strip, ignore_whitespace), DictLtAnalysis .. DictGtAnalysis and their
\* Indirect forms, DictFieldLtAnalysis .. DictFieldGeAnalysis
ScalarAnalyses ==
    [kind : {"scalar"}, variant : ScalarVariants, source : TextSources,
     to : ScalarValues, strip : BOOLEAN, ignore_whitespace : BOOLEAN]

DictAnalysisOptions ==
    [fields : SUBSET {"x", "z"}, fields_from_source : BOOLEAN,
     fields_from_to : BOOLEAN, ignore_fields : SUBSET {"x", "y"},
     ignore_missing : BOOLEAN]

\* a DictLtAnalysis .. DictGtAnalysis: 'to' is a dict of the definition
DictAnalysis(v, a, b, o) ==
    [kind |-> "dict", variant |-> v, source |-> a, indirect |-> FALSE,
     to |-> [ref |-> "dict", dict |-> Dict(b)], opts |-> o]

\* an IndirectDictLtAnalysis .. IndirectDictGtAnalysis: 'to' names a
\* Reference; the model keeps the ones that give no dict
IndirectDictAnalysis(v, a, b, o) ==
    [kind |-> "dict", variant |-> v, source |-> a, indirect |-> TRUE,
     to |-> b, opts |-> o]

DictFieldAnalyses ==
    [kind : {"dictfield"}, variant : ScalarVariants, source : DictSources,
     field : {"x", "z"}, to : ScalarValues]

InitCmp ==
    /\ \/ cmpIn \in ScalarAnalyses
       \/ cmpIn \in DictFieldAnalyses
       \/ \E v \in ScalarVariants, a \in DictSources, o \in DictAnalysisOptions :
             \/ \E b \in Dicts : cmpIn = DictAnalysis(v, a, b, o)
             \/ \E b \in { x \in DictSources : x.dict.none } :
                   cmpIn = IndirectDictAnalysis(v, a, b, o)
    /\ cmpOut = [stage |-> "none"]
    /\ IdleDef
    /\ IdlePath
    /\ IdleEval
    /\ IdleList
    /\ IdleReg
    /\ IdleLines
    /\ IdleExec
    /\ IdleFiles
    /\ IdleSos
    /\ IdlePair
    /\ IdleProc

\* what reading normal gives once the comparison is made
CmpDone(a, b, compare) ==
    [stage |-> "done", raised |-> "no", a |-> a, b |-> b, compare |-> compare,
     normal |-> ComparisonAnalysis_normal(compare)]

CmpRaised(e) == [stage |-> "done", raised |-> e]

\* reading normal of LtAnalysis, LeAnalysis, EqAnalysis, GeAnalysis,
\* GtAnalysis: comparison_a is source_value(), comparison_b is 'to'
ReadScalarAnalysis ==
    /\ cmpIn.kind = "scalar"
    /\ cmpOut.stage = "none"
    /\ LET a == source_value(cmpIn.source)
           b == cmpIn.to
           strip == IF cmpIn.variant = "eq" THEN cmpIn.strip ELSE TRUE
           ignore == IF cmpIn.variant = "eq" THEN cmpIn.ignore_whitespace ELSE TRUE
       IN cmpOut' = CmpDone(a, b, ScalarCompare(cmpIn.variant, a, b, strip, ignore))
    /\ UNCHANGED cmpIn

\* reading normal of a DictAnalysis or IndirectDictAnalysis: comparison_a
\* is source_dict(), comparison_b is 'to' or source_dict(to)
ReadDictAnalysis ==
    /\ cmpIn.kind = "dict"
    /\ cmpOut.stage = "none"
    /\ cmpOut' =
         IF source_dict_raises(cmpIn.source) THEN CmpRaised("InvalidAnalysisError")
         ELSE IF cmpIn.indirect /\ source_dict_raises(cmpIn.to)
         THEN CmpRaised("InvalidAnalysisError")
         ELSE LET a == source_dict(cmpIn.source)
                  b == source_dict(cmpIn.to)
              IN CmpDone(a, b, DictCompare(cmpIn.variant, a, b,
                                           comparison_kwargs(cmpIn.opts)))
    /\ UNCHANGED cmpIn

\* reading normal of a DictFieldAnalysis: comparison_a is
\* (source_dict() or {}).get(field), comparison_b is 'to'
ReadDictFieldAnalysis ==
    /\ cmpIn.kind = "dictfield"
    /\ cmpOut.stage = "none"
    /\ cmpOut' =
         IF source_dict_raises(cmpIn.source) THEN CmpRaised("InvalidAnalysisError")
         ELSE LET sd == source_dict(cmpIn.source)
                  a == IF sd.none THEN NoneS ELSE DictGet(sd.d, cmpIn.field)
                  b == cmpIn.to
              IN CmpDone(a, b, ScalarCompare(cmpIn.variant, a, b, TRUE, TRUE))
    /\ UNCHANGED cmpIn

NextCmp ==
    /\ \/ ReadScalarAnalysis
       \/ ReadDictAnalysis
       \/ ReadDictFieldAnalysis
    /\ UNCHANGED <<defVars, pathVars, evalVars, listVars, regVars, lineVars, execVars, fsVars, sosVars, pairVars, procVars>>

SpecCmp == InitCmp /\ [][NextCmp]_vars

\* an operand of the comparison that was made is None
OperandIsNone(x) == IF cmpIn.kind = "dict" THEN x.none ELSE x = NoneS

(***************************************************************************)
(* C2: when a comparison (string eq, number lt/le/ge/gt, dict) is made     *)
(* with an operand that is None, compare() is None, and normal of the      *)
(* ComparisonAnalysis that owns the comparison is None.                    *)
(***************************************************************************)
C2_NoneOperandIsUnknown ==
    (cmpOut.stage = "done" /\ cmpOut.raised = "no"
       /\ (OperandIsNone(cmpOut.a) \/ OperandIsNone(cmpOut.b)))
    => (cmpOut.compare = "None" /\ cmpOut.normal = "None")

\* a DictFieldAnalysis whose field the source dict does not hold
C2_Witness ==
    /\ cmpOut.stage = "done"
    /\ cmpOut.raised = "no"
    /\ cmpIn.kind = "dictfield"
    /\ ~cmpIn.source.dict.none
    /\ cmpOut.a = NoneS
    /\ cmpOut.normal = "None"

\* a DictAnalysis has compared two dicts taking the fields of both
ComparedBothDicts ==
    /\ cmpIn.kind = "dict"
    /\ cmpOut.stage = "done"
    /\ cmpOut.raised = "no"
    /\ ~cmpOut.a.none
    /\ ~cmpOut.b.none
    /\ cmpIn.opts.fields_from_source
    /\ cmpIn.opts.fields_from_to

\* (fields plus keys of a plus keys of b) minus ignore_fields
C8_ComparedFields ==
    (cmpIn.opts.fields \cup DOMAIN cmpOut.a.d \cup DOMAIN cmpOut.b.d)
      \ cmpIn.opts.ignore_fields

\* compared fields that only one of the two dicts holds
C8_OneSided ==
    { f \in C8_ComparedFields : (f \in DOMAIN cmpOut.a.d) # (f \in DOMAIN cmpOut.b.d) }

\* compared fields that both dicts hold
C8_TwoSided ==
    { f \in C8_ComparedFields : f \in DOMAIN cmpOut.a.d /\ f \in DOMAIN cmpOut.b.d }

\* the scalar comparison of the two values of a field both dicts hold
C8_Scalar(f) ==
    ScalarCompare(cmpIn.variant, cmpOut.a.d[f], cmpOut.b.d[f], TRUE, TRUE)

C8_Missing ==
    { f \in C8_ComparedFields :
        \/ f \notin DOMAIN cmpOut.a.d
        \/ f \notin DOMAIN cmpOut.b.d
        \/ /\ cmpIn.variant # "eq"
           /\ \/ ToInt(cmpOut.a.d[f]) = NoInt
              \/ ToInt(cmpOut.b.d[f]) = NoInt }

MaxTextLen == 3

\* the most definitions an and/or analysis lists
MaxChildren == 2

RefNames == {<<"a">>, <<"b">>, <<"t">>}

UnregisteredName == <<"z">>

RefValues == {NoneS, <<>>, <<"x">>}

ListTexts == UNION { [1..n -> {"a", "b", "\n"}] : n \in 0..MaxTextLen }

\* what a source names in the registry: see DictSources, TextSources
Lookup(source) ==
    IF source \notin RefNames
    THEN [ref |-> "unregistered", value |-> NoneS, dict |-> NoDict]
    ELSE [ref |-> IF source = <<"b">> THEN "dict" ELSE "text",
          value |-> refs[source],
          dict |-> IF refs[source] = NoneS THEN NoDict
                   ELSE Dict([k \in {"x"} |-> refs[source]])]

\* the position of the first line break of a text, 0 when it has none
RECURSIVE FirstBreak(_, _)
FirstBreak(t, i) ==
    IF i > Len(t) THEN 0
    ELSE IF t[i] = "\n" THEN i
    ELSE FirstBreak(t, i + 1)

\* str.splitlines()
RECURSIVE splitlines(_)
splitlines(t) ==
    IF t = <<>> THEN <<>>
    ELSE LET i == FirstBreak(t, 1)
         IN IF i = 0 THEN <<t>>
            ELSE <<SubSeq(t, 1, i - 1)>> \o splitlines(SubSeq(t, i + 1, Len(t)))

LeafTypes == {"analysis", "debug", "dictdebug", "eq"}

ChildTypes == {"analysis", "eq"}

\* the types an 'as' template gives; no Definition class has the last one
TemplateTypes == ChildTypes \cup {"nosuch"}

\* the 'to' of every EqAnalysis of the model
EqTo == <<"x">>

NewAnalysis(name, type, source, arg, parent) ==
    [name |-> name, type |-> type, source |-> source, arg |-> arg,
     parent |-> parent,
     made |-> IF type = "foreachanalysis" THEN "unset" ELSE "list",
     kids |-> <<>>]

\* the definitions loaded into the registry: "p" is any analysis, "q" a
\* BasicAnalysis of "a" that is loaded after it
EvalDefinitions ==
    { [name |-> "p", type |-> ty, source |-> <<"a">>, arg |-> <<>>] : ty \in LeafTypes }
      \cup
    { [name |-> "p", type |-> "dictdebug", source |-> src, arg |-> <<>>] :
          src \in {<<"b">>, UnregisteredName} }
      \cup
    { [name |-> "p", type |-> "foreachanalysis", source |-> <<"t">>, arg |-> <<ty>>] :
          ty \in TemplateTypes }
      \cup
    { [name |-> "p", type |-> ty, source |-> <<"a">>, arg |-> ch] :
          ty \in {"and", "or"},
          ch \in UNION { [1..n -> ChildTypes] : n \in 0..MaxChildren } }
      \cup
    { [name |-> "q", type |-> "analysis", source |-> <<"a">>, arg |-> <<>>] }

\* the anonymous analyses held by the registry
Anonymous(as) == { i \in 1..Len(as) : as[i].parent # 0 }

\* Definition.anonymous(ChainMap({'source': source}, definition)), the k-th
\* one made by the analysis at position parent of as
anonymous(as, parent, k, type, source) ==
    NewAnalysis(Uuid(Cardinality(Anonymous(as)) + k), type, source, <<>>, parent)

\* ForeachAnalysis.analyses giving every child the source of the foreach
ForeachDefinitions_OwnSource(an, v) ==
    [k \in 1..Len(splitlines(v)) |-> [type |-> an.arg[1], source |-> an.source]]

\* ForeachAnalysis.analyses: the definitions of the children, one per line
ForeachDefinitions(an, v) ==
    [k \in 1..Len(splitlines(v)) |-> [type |-> an.arg[1], source |-> splitlines(v)[k]]]

\* LogicalAnalysis.setup: the definitions of the children
LogicalDefinitions(an) ==
    [k \in 1..Len(an.arg) |-> [type |-> an.arg[k], source |-> an.source]]

\* as with the children of its i-th analysis, built from defs, put in
WithChildren(as, i, defs) ==
    LET n == Len(as)
        kids == [k \in 1..Len(defs) |-> n + k]
        made == [k \in 1..Len(defs) |->
                   anonymous(as, i, k, defs[k].type, defs[k].source)]
    IN [as EXCEPT ![i].made = "list", ![i].kids = kids] \o made

Outcome(results, normal) == [raised |-> "no", results |-> results, normal |-> normal]

Raises(e) == [raised |-> e, results |-> "-", normal |-> "-"]

\* analyse() and then normal of BasicAnalysis, DebugAnalysis,
\* DictDebugAnalysis, EqAnalysis; results is "None" or "some"
LeafOutcome(an) ==
    LET src == Lookup(an.source)
        v == source_value(src)
    IN IF an.type = "analysis"
       THEN IF v = NoneS THEN Outcome("None", "None")
            ELSE Outcome("some", Tri(v = <<>>))
       ELSE IF an.type = "debug"
       THEN IF v = NoneS THEN Outcome("None", "None")
            ELSE Outcome("some", "True")
       ELSE IF an.type = "dictdebug"
       THEN IF source_dict_raises(src) THEN Raises("InvalidAnalysisError")
            ELSE IF source_dict(src).none THEN Outcome("None", "None")
            ELSE Outcome("some", "True")
       ELSE Outcome("some",
                    ComparisonAnalysis_normal(ScalarCompare("eq", v, EqTo, TRUE, TRUE)))

\* AndAnalysis.is_normal, OrAnalysis.is_normal; all() for a foreachanalysis
is_normal(type, values) ==
    IF type = "or" THEN Tri(\E k \in DOMAIN values : values[k] = "True")
    ELSE Tri(\A k \in DOMAIN values : values[k] = "True")

\* analyse() and then normal of a LogicalAnalysis or ForeachAnalysis whose
\* children are rs: _results chains the results of the children, and
\* chain() of a None is a TypeError
AggregateOutcome(type, rs) ==
    IF \E k \in DOMAIN rs : rs[k].raised # "no"
    THEN LET k == CHOOSE k \in DOMAIN rs :
                    /\ rs[k].raised # "no"
                    /\ \A j \in 1..(k - 1) : rs[j].raised = "no"
         IN Raises(rs[k].raised)
    ELSE IF \E k \in DOMAIN rs : rs[k].results = "None" THEN Raises("TypeError")
    ELSE IF \E k \in DOMAIN rs : rs[k].normal = "None" THEN Outcome("some", "None")
    ELSE Outcome("some", is_normal(type, [k \in DOMAIN rs |-> rs[k].normal]))

\* analyse() and then normal of the i-th analysis, its children being made
EvalOutcome(as, i) ==
    IF as[i].type \in LeafTypes THEN LeafOutcome(as[i])
    ELSE IF as[i].made = "none" \/ as[i].kids = <<>> THEN Outcome("None", "None")
    ELSE AggregateOutcome(as[i].type,
                          [k \in 1..Len(as[i].kids) |-> LeafOutcome(as[as[i].kids[k]])])

\* ForeachAnalysis.analyses, a cached property: the registry once the i-th
\* analysis has it, or the error that making the children raises
Materialize(as, i) ==
    LET v == source_value(Lookup(as[i].source))
    IN IF as[i].type # "foreachanalysis" \/ as[i].made # "unset"
       THEN [raised |-> "no", as |-> as]
       ELSE IF v = NoneS \/ v = <<>>
       THEN [raised |-> "no", as |-> [as EXCEPT ![i].made = "none"]]
       ELSE IF NewRaises(IF as[i].arg[1] \in ChildTypes THEN "concrete" ELSE "unknown")
       THEN [raised |-> "InvalidDefinitionError", as |-> as]
       ELSE [raised |-> "no", as |-> WithChildren(as, i, ForeachDefinitions(as[i], v))]

\* Conclusion.data of the i-th analysis: results, duration and normal
Conclude(as, i) ==
    LET m == Materialize(as, i)
    IN [as |-> m.as,
        outcome |-> IF m.raised # "no" THEN Raises(m.raised) ELSE EvalOutcome(m.as, i)]

InitEval ==
    /\ refs \in { r \in [RefNames -> RefValues \cup ListTexts] :
                    /\ r[<<"a">>] \in RefValues
                    /\ r[<<"b">>] \in {NoneS, <<"x">>}
                    /\ r[<<"t">>] \in ListTexts \cup {NoneS} }
    /\ analyses = <<>>
    /\ lastRead = [stage |-> "none"]
    /\ gather = [state |-> "idle"]
    /\ IdleDef
    /\ IdlePath
    /\ IdleCmp
    /\ IdleList
    /\ IdleReg
    /\ IdleLines
    /\ IdleExec
    /\ IdleFiles
    /\ IdleSos
    /\ IdlePair
    /\ IdleProc

\* Definition(d, reductions) of a definition that setup() accepts: the
\* analysis is registered, and a LogicalAnalysis registers its children
ConstructAnalysis(d) ==
    /\ lastRead.stage = "none"
    /\ gather.state = "idle"
    /\ \A i \in 1..Len(analyses) : analyses[i].name # d.name
    /\ d.name = "q" => analyses # <<>>
    /\ LET as == Append(analyses, NewAnalysis(d.name, d.type, d.source, d.arg, 0))
       IN analyses' = IF d.type \in {"and", "or"}
                      THEN WithChildren(as, Len(as), LogicalDefinitions(as[Len(as)]))
                      ELSE as
    /\ UNCHANGED <<refs, lastRead, gather>>

\* the conclusion of the i-th analysis, one that a definition names, is read
Read(i) ==
    /\ gather.state = "idle"
    /\ analyses[i].parent = 0
    /\ LET c == Conclude(analyses, i)
       IN /\ analyses' = c.as
          /\ lastRead' = [stage |-> "read", who |-> i,
                          created |-> Len(c.as) - Len(analyses),
                          raised |-> c.outcome.raised,
                          results |-> c.outcome.results,
                          normal |-> c.outcome.normal]
    /\ UNCHANGED <<refs, gather>>

\* SOS.sear, SOSAnalysis.conclusions: the loop over _analyses.values() starts
GatherStart ==
    /\ gather.state = "idle"
    /\ analyses # <<>>
    /\ gather' = [state |-> "running", pos |-> 1, size |-> Len(analyses),
                  conclusions |-> <<>>]
    /\ lastRead' = [stage |-> "none"]
    /\ UNCHANGED <<refs, analyses>>

\* one turn of the loop: the iterator of the dict raises RuntimeError when
\* the dict has changed size, an exception out of dict(a.conclusion) is
\* swallowed, and the conclusions are stored when the loop ends
GatherStep ==
    /\ gather.state = "running"
    /\ IF Len(analyses) # gather.size
       THEN /\ gather' = [gather EXCEPT !.state = "RuntimeError", !.conclusions = <<>>]
            /\ UNCHANGED analyses
       ELSE IF gather.pos > Len(analyses)
       THEN /\ gather' = [gather EXCEPT !.state = "done"]
            /\ UNCHANGED analyses
       ELSE LET c == Conclude(analyses, gather.pos)
            IN /\ analyses' = c.as
               /\ gather' = [gather EXCEPT
                    !.pos = @ + 1,
                    !.conclusions = IF c.outcome.raised = "no"
                                    THEN Append(@, analyses[gather.pos].name)
                                    ELSE @]
    /\ UNCHANGED <<refs, lastRead>>

NextEval ==
    /\ \/ \E d \in EvalDefinitions : ConstructAnalysis(d)
       \/ \E i \in 1..Len(analyses) : Read(i)
       \/ GatherStart
       \/ GatherStep
    /\ UNCHANGED <<defVars, pathVars, cmpVars, listVars, regVars, lineVars, execVars, fsVars, sosVars, pairVars, procVars>>

SpecEval == InitEval /\ [][NextEval]_vars

\* the analysis whose conclusion was read last
ReadAnalysis == analyses[lastRead.who]

\* what reading the children of the analysis read last gives, in order
ChildNormals ==
    [k \in 1..Len(ReadAnalysis.kids) |-> LeafOutcome(analyses[ReadAnalysis.kids[k]]).normal]

(***************************************************************************)
(* C3: reading results and normal of a constructed Analysis never raises,  *)
(* and normal is None when the source Reference is not registered or its   *)
(* value is unavailable.                                                   *)
(***************************************************************************)
C3_ReadNeverRaises ==
    lastRead.stage = "read" =>
      /\ lastRead.raised = "no"
      /\ source_value(Lookup(ReadAnalysis.source)) = NoneS => lastRead.normal = "None"

\* the names of the analyses whose conclusion can be made, in registration
\* order
Concluded(as) ==
    LET Test(i) == Conclude(as, i).outcome.raised = "no"
        F[i \in 0..Len(as)] ==
            IF i = 0 THEN <<>>
            ELSE IF Test(i) THEN Append(F[i - 1], as[i].name) ELSE F[i - 1]
    IN F[Len(as)]

(***************************************************************************)
(* C4: gathering the conclusions of a bundle is never aborted by an        *)
(* exception, and when it ends every Analysis whose conclusion could be    *)
(* made has contributed it, in registration order.                         *)
(***************************************************************************)
C4_GatheringCompletes ==
    /\ gather.state \in {"idle", "running", "done"}
    /\ gather.state = "done" => gather.conclusions = Concluded(analyses)

(***************************************************************************)
(* C5: normal of an AndAnalysis is True iff every child is normal, normal  *)
(* of an OrAnalysis is True iff some child is normal, and it is None for   *)
(* both when some child is unknown; every child is an anonymous Analysis   *)
(* of a listed definition with the source of the parent.                   *)
(***************************************************************************)
C5_LogicalNormal ==
    (lastRead.stage = "read" /\ ReadAnalysis.type \in {"and", "or"}) =>
      /\ Len(ReadAnalysis.kids) = Len(ReadAnalysis.arg)
      /\ \A k \in 1..Len(ReadAnalysis.kids) :
           LET child == analyses[ReadAnalysis.kids[k]]
           IN /\ child.parent = lastRead.who
              /\ child.type = ReadAnalysis.arg[k]
              /\ child.source = ReadAnalysis.source
      /\ lastRead.raised = "no"
      /\ lastRead.normal =
           (IF \E k \in DOMAIN ChildNormals : ChildNormals[k] = "None" THEN "None"
            ELSE IF ReadAnalysis.type = "and"
            THEN Tri(\A k \in DOMAIN ChildNormals : ChildNormals[k] = "True")
            ELSE Tri(\E k \in DOMAIN ChildNormals : ChildNormals[k] = "True"))

\* the number of lines of a text: its line breaks, and one more for what
\* follows the last of them
LineCount(t) ==
    Cardinality({ i \in 1..Len(t) : t[i] = "\n" })
      + (IF t # <<>> /\ t[Len(t)] # "\n" THEN 1 ELSE 0)

\* the anonymous analyses that the analysis at position i has made
MadeBy(i) == { j \in 1..Len(analyses) : analyses[j].parent = i }

C7_ForeachNormal ==
    (lastRead.stage = "read" /\ ReadAnalysis.type = "foreachanalysis") =>
      /\ lastRead.raised = "no"
      /\ lastRead.normal =
           (IF refs[ReadAnalysis.source] = NoneS THEN "None"
            ELSE IF \E k \in DOMAIN ChildNormals : ChildNormals[k] = "None" THEN "None"
            ELSE Tri(\A k \in DOMAIN ChildNormals : ChildNormals[k] = "True"))

(***************************************************************************)
(* reference/path.py: ReferencePathList.  Every path of the list is the    *)
(* root path of a file of its own, [file, off, len, ref] with ref FALSE,   *)
(* or a slice of such a root, with ref TRUE.  The j-th byte of the f-th    *)
(* file is 10 * f + j.                                                     *)
(***************************************************************************)
\* the most paths a list is made of
MaxPaths == 2

FileContent(f) == [j \in 1..files[f].size |-> 10 * f + j]

\* ReferencePath(p, sos=sos), as ReferencePathList.__init__ makes it
RootOf(f) == [file |-> f, off |-> 0, len |-> 0, ref |-> FALSE]

\* ReferencePath(root, offset=o, length=l)
SliceOf(root, o, l) ==
    [file |-> root.file, off |-> Max(0, o), len |-> Max(0, l), ref |-> TRUE]

\* ReferencePath.length of a path of the list
PathLength(p) ==
    LET size == IF files[p.file].ok THEN files[p.file].size ELSE 0
    IN IF p.ref
       THEN Max(Min(size - p.off, IF p.len # 0 THEN p.len ELSE maxsize), 0)
       ELSE size

\* ReferencePath.value of a path of the list
PathValue(p) ==
    IF ~p.ref
    THEN IF files[p.file].ok THEN Bytes(FileContent(p.file)) ELSE NoneValue
    ELSE IF files[p.file].ok
    THEN Bytes(PySlice(FileContent(p.file), p.off, p.off + PathLength(p)))
    ELSE Raised("TypeError")

\* b''.join of the values that are not None
RECURSIVE JoinValues(_, _)
JoinValues(ps, i) ==
    IF i = 0 THEN <<>>
    ELSE JoinValues(ps, i - 1)
           \o (IF PathValue(ps[i]).kind = "bytes" THEN PathValue(ps[i]).bytes ELSE <<>>)

\* ReferencePathList.value returning None for every list without a value
ListValue_NoneWhenEmpty(ps) ==
    IF \E i \in 1..Len(ps) : PathValue(ps[i]).kind \notin {"bytes", "None"}
    THEN Raised("TypeError")
    ELSE IF \A i \in 1..Len(ps) : PathValue(ps[i]).kind = "None"
    THEN NoneValue
    ELSE Bytes(JoinValues(ps, Len(ps)))

\* ReferencePathList.value
ListValue(ps) ==
    IF \E i \in 1..Len(ps) : PathValue(ps[i]).kind \notin {"bytes", "None"}
    THEN Raised("TypeError")
    ELSE IF ps # <<>> /\ \A i \in 1..Len(ps) : PathValue(ps[i]).kind = "None"
    THEN NoneValue
    ELSE Bytes(JoinValues(ps, Len(ps)))

\* ReferencePathList._slice from the i-th path on, length being
\* 'length or sys.maxsize': the paths it yields, or the error of
\* ReferencePath.__new__ for a slice of a slice
RECURSIVE ListSlicePaths(_, _, _, _)
ListSlicePaths(ps, i, o, l) ==
    IF i > Len(ps) THEN [raised |-> "no", paths |-> <<>>]
    ELSE IF PathLength(ps[i]) <= o
    THEN IF l <= 0 THEN [raised |-> "no", paths |-> <<>>]
         ELSE ListSlicePaths(ps, i + 1, o - PathLength(ps[i]), l)
    ELSE IF ps[i].ref THEN [raised |-> "AttributeError", paths |-> <<>>]
    ELSE LET r == SliceOf(ps[i], o, l)
             rest == IF l - PathLength(r) <= 0
                     THEN [raised |-> "no", paths |-> <<>>]
                     ELSE ListSlicePaths(ps, i + 1, o, l - PathLength(r))
         IN [raised |-> rest.raised, paths |-> <<r>> \o rest.paths]

FileStates == { f \in [ok : BOOLEAN, size : 0..MaxFileLen] : ~f.ok => f.size = 0 }

InitList ==
    /\ files \in UNION { [1..n -> FileStates] : n \in 0..MaxPaths }
    /\ plist = [f \in 1..Len(files) |-> RootOf(f)]
    /\ listCall = [stage |-> "none"]
    /\ IdleDef
    /\ IdlePath
    /\ IdleCmp
    /\ IdleEval
    /\ IdleReg
    /\ IdleLines
    /\ IdleExec
    /\ IdleFiles
    /\ IdleSos
    /\ IdlePair
    /\ IdleProc

\* plist.value is read
ReadListValue ==
    /\ listCall' = [stage |-> "value", value |-> ListValue(plist)]
    /\ UNCHANGED <<files, plist>>

\* plist = plist.slice(o, l), when the slice can be made
ListSlice(o, l) ==
    /\ LET r == ListSlicePaths(plist, 1, o, IF l # 0 THEN l ELSE maxsize)
       IN /\ listCall' = [stage |-> "slice", o |-> o, l |-> l, raised |-> r.raised,
                          of |-> plist]
          /\ plist' = IF r.raised = "no" THEN r.paths ELSE plist
    /\ UNCHANGED files

NextList ==
    /\ \/ ReadListValue
       \/ \E o, l \in SliceArgs : ListSlice(o, l)
    /\ UNCHANGED <<defVars, pathVars, cmpVars, evalVars, regVars, lineVars, execVars, fsVars, sosVars, pairVars, procVars>>

SpecList == InitList /\ [][NextList]_vars

\* the paths of plist before the i-th whose value is not None
AvailableBefore(i) == { j \in 1..(i - 1) : PathValue(plist[j]).kind = "bytes" }

\* the length of the values of the paths in S, taken together
RECURSIVE TotalLength(_)
TotalLength(S) ==
    IF S = {} THEN 0
    ELSE LET j == CHOOSE j \in S : TRUE
         IN Len(PathValue(plist[j]).bytes) + TotalLength(S \ {j})

(***************************************************************************)
(* C12: when the value of every path of a list can be read, the value of   *)
(* the list is None exactly when the list is not empty and every value is  *)
(* None, and is otherwise the values that are not None, one after the      *)
(* other in the order of the list; for the empty list it is b''.           *)
(***************************************************************************)
C12_ListValue ==
    (/\ listCall.stage = "value"
     /\ \A i \in 1..Len(plist) : PathValue(plist[i]).kind \in {"bytes", "None"})
    =>
      LET v == listCall.value
          allNone == \A i \in 1..Len(plist) : PathValue(plist[i]).kind = "None"
      IN /\ v.kind \in {"bytes", "None"}
         /\ v.kind = "None" <=> (plist # <<>> /\ allNone)
         /\ plist = <<>> => v = Bytes(<<>>)
         /\ v.kind = "bytes" =>
              /\ Len(v.bytes) = TotalLength(AvailableBefore(Len(plist) + 1))
              /\ \A i \in 1..Len(plist) :
                   PathValue(plist[i]).kind = "bytes" =>
                     LET at == TotalLength(AvailableBefore(i))
                         w == PathValue(plist[i]).bytes
                     IN SubSeq(v.bytes, at + 1, at + Len(w)) = w

\* a list of an unreadable file and a readable one: the value of the list
\* is the value of the second
C12_Witness ==
    /\ listCall.stage = "value"
    /\ Len(plist) = 2
    /\ PathValue(plist[1]).kind = "None"
    /\ PathValue(plist[2]).kind = "bytes"
    /\ listCall.value = PathValue(plist[2])
    /\ listCall.value.bytes # <<>>

(***************************************************************************)
(* reductions.py, definition.py, reference/chain.py: the registry.         *)
(* regReferences and regAnalyses are the two dicts of a Reductions, from   *)
(* a name to [source, chain, anon, seq]: the 'source' of the definition,   *)
(* the names of the stages of a ChainReference once its chain is built,    *)
(* whether the name was generated, and how many definitions the registry   *)
(* held when this one was constructed.                                     *)
(***************************************************************************)
\* the most entries the 'chain' of a ChainReference lists
MaxStages == 2

RegNames == {"n1", "n2"}

\* the names a 'source' gives; nothing is ever registered as "n3"
SourceNames == RegNames \cup {"n3"}

\* Reference, Analysis, and a Definition that is neither
DefinitionKinds == {"reference", "analysis", "other"}

\* the sources the chains give
ChainSources == {"n2", "n3"}

\* a chain entry: a definition of a Reference, one that also gives a
\* 'name', one that also gives a 'source'
EntryKinds == {"plain", "named", "sourced"}

NewEntry(rs, as, source, anon) ==
    [source |-> source, chain |-> <<>>, anon |-> anon,
     seq |-> Cardinality(DOMAIN rs \cup DOMAIN as)]

\* Reductions.get(name): the class of what holds the name, "None" for none
Get(rs, as, name) ==
    IF name \in DOMAIN rs THEN "reference"
    ELSE IF name \in DOMAIN as THEN "analysis"
    ELSE "None"

\* Reductions.__setitem__ looking for the key in the dict of the class only
SetItem_OwnDict(rs, as, key, kind, entry) ==
    IF kind = "other" \/ (kind = "reference" /\ key \in DOMAIN rs)
         \/ (kind = "analysis" /\ key \in DOMAIN as)
    THEN [raised |-> "InvalidDefinitionError", rs |-> rs, as |-> as]
    ELSE IF kind = "reference"
    THEN [raised |-> "no", rs |-> (key :> entry) @@ rs, as |-> as]
    ELSE [raised |-> "no", rs |-> rs, as |-> (key :> entry) @@ as]

\* Reductions.__setitem__
SetItem(rs, as, key, kind, entry) ==
    IF key \in DOMAIN rs \cup DOMAIN as \/ kind = "other"
    THEN [raised |-> "InvalidDefinitionError", rs |-> rs, as |-> as]
    ELSE IF kind = "reference"
    THEN [raised |-> "no", rs |-> (key :> entry) @@ rs, as |-> as]
    ELSE [raised |-> "no", rs |-> rs, as |-> (key :> entry) @@ as]

\* the isinstance test of DefinitionSourceDefinition.setup without NoneType
SourceAllowed_Found(found, required) ==
    /\ found # "None"
    /\ required = "Definition" \/ found = "reference"

\* DefinitionSourceDefinition.setup: isinstance(self.source,
\* tuple(source_classes + [type(None)])), source_class being Definition or
\* Reference
SourceAllowed(found, required) ==
    \/ found = "None"
    \/ required = "Definition"
    \/ found = "reference"

\* ChainReference._build_chain giving every stage the source of the chain
StageSource_OfChain(source, stages) == source

\* ChainReference._build_chain: the source of the next stage
StageSource(source, stages) ==
    IF stages = <<>> THEN source ELSE stages[Len(stages)]

\* ChainReference._build_chain from the k-th entry on
RECURSIVE BuildChain(_, _, _, _, _, _)
BuildChain(rs, as, source, entries, k, stages) ==
    IF k > Len(entries) THEN [raised |-> "no", rs |-> rs, stages |-> stages]
    ELSE IF entries[k] \in {"named", "sourced"}
    THEN [raised |-> "InvalidReferenceError", rs |-> rs, stages |-> stages]
    ELSE LET name == Uuid(Cardinality({ n \in DOMAIN rs : rs[n].anon }) + 1)
             r == SetItem(rs, as, name, "reference",
                          NewEntry(rs, as, StageSource(source, stages), TRUE))
         IN BuildChain(r.rs, as, source, entries, k + 1, Append(stages, name))

\* ChainReference.pathlist: the stage whose pathlist it is
ChainPathlist(chain) == chain[Len(chain)]

Held == DOMAIN regReferences \cup DOMAIN regAnalyses

InitReg ==
    /\ regReferences = <<>>
    /\ regAnalyses = <<>>
    /\ regCall = [op |-> "none"]
    /\ IdleDef
    /\ IdlePath
    /\ IdleCmp
    /\ IdleEval
    /\ IdleList
    /\ IdleLines
    /\ IdleExec
    /\ IdleFiles
    /\ IdleSos
    /\ IdlePair
    /\ IdleProc

\* the last call: what it was given, what the registry held, what came of
\* it.  A construction under a name that is taken is refused by __setitem__
\* before the source or the chain of the definition is looked at.
RegCalled(op, name, kind, source, entries, outcome) ==
    [op |-> op, name |-> name, kind |-> kind,
     source |-> IF op # "resolve" /\ name \in Held THEN "unread" ELSE source,
     entries |-> IF name \in Held THEN <<>> ELSE entries,
     outcome |-> outcome, before |-> Held]

\* the class a source must have: a Reference that has a source requires a
\* Reference; an Analysis is a plain Definition, whose setup() does not
\* look at the source
source_class(kind) == IF kind = "reference" THEN "Reference" ELSE "Definition"

\* Definition(d, reductions) of a definition with a source: the name is
\* stored, then setup() looks at what the source names
ConstructSourced(name, kind, source) ==
    LET r == SetItem(regReferences, regAnalyses, name, kind, NewEntry(regReferences, regAnalyses, source, FALSE))
    IN /\ regReferences' = r.rs
       /\ regAnalyses' = r.as
       /\ regCall' = RegCalled("construct", name, kind, source, <<>>,
            IF r.raised # "no" THEN r.raised
            ELSE IF SourceAllowed(Get(r.rs, r.as, source), source_class(kind)) THEN "ok"
            ELSE "InvalidDefinitionError")

\* Definition(d, reductions) of a ChainReference: the name is stored, then
\* setup() builds the chain
ConstructChain(name, source, entries) ==
    LET r == SetItem(regReferences, regAnalyses, name, "reference",
                     NewEntry(regReferences, regAnalyses, source, FALSE))
        b == BuildChain(r.rs, r.as, source, entries, 1, <<>>)
    IN /\ regAnalyses' = r.as
       /\ regReferences' =
            IF r.raised # "no" \/ entries = <<>> THEN r.rs
            ELSE IF b.raised # "no" THEN b.rs
            ELSE [b.rs EXCEPT ![name].chain = b.stages]
       /\ regCall' = RegCalled("chain", name, "reference", source, entries,
            IF r.raised # "no" THEN r.raised
            ELSE IF entries = <<>> THEN "InvalidReferenceError"
            ELSE IF b.raised # "no" THEN b.raised
            ELSE "ok")

\* the source of a registered definition is read: DefinitionSourceDefinition
\* .source, Analysis.source_reference
Resolve(name) ==
    /\ name \in Held
    /\ LET entry == IF name \in DOMAIN regReferences THEN regReferences[name]
                    ELSE regAnalyses[name]
       IN regCall' = RegCalled("resolve", name, Get(regReferences, regAnalyses, name),
                               entry.source, <<>>,
                               Get(regReferences, regAnalyses, entry.source))
    /\ UNCHANGED <<regReferences, regAnalyses>>

NextReg ==
    /\ \/ \E name \in RegNames, kind \in DefinitionKinds, source \in SourceNames :
              ConstructSourced(name, kind, source)
       \/ \E name \in RegNames, source \in ChainSources,
            entries \in UNION { [1..n -> EntryKinds] : n \in 0..MaxStages } :
              ConstructChain(name, source, entries)
       \/ \E name \in RegNames : Resolve(name)
    /\ UNCHANGED <<defVars, pathVars, cmpVars, evalVars, listVars, lineVars, execVars, fsVars, sosVars, pairVars, procVars>>

SpecReg == InitReg /\ [][NextReg]_vars

\* what the registry holds under a name
EntryOf(rs, as, name) ==
    IF name \in DOMAIN rs THEN <<"reference", rs[name]>>
    ELSE <<"analysis", as[name]>>

C14_OneDefinitionPerName ==
    DOMAIN regReferences \cap DOMAIN regAnalyses = {}

C14_DuplicateRaises ==
    regCall.op \in {"construct", "chain"} /\ regCall.name \in regCall.before
        => regCall.outcome = "InvalidDefinitionError"

C14_EarlierEntryStays ==
    \A name \in Held :
        /\ name \in Held'
        /\ EntryOf(regReferences', regAnalyses', name)
             = EntryOf(regReferences, regAnalyses, name)

\* C14: whatever is registered, no name is held by both a Reference and an
\* Analysis; registering a name that a Reference or an Analysis already
\* holds raises InvalidDefinitionError, and the entry that was there stays
\* as it was.
C14_SingleNamespace ==
    /\ [](C14_OneDefinitionPerName /\ C14_DuplicateRaises)
    /\ [][C14_EarlierEntryStays]_vars

\* an Analysis was registered under a name that a Reference holds, and was
\* refused
C14_Witness ==
    /\ regCall.op = "construct"
    /\ regCall.kind = "analysis"
    /\ regCall.name \in regCall.before
    /\ regCall.name \in DOMAIN regReferences
    /\ regCall.outcome = "InvalidDefinitionError"

C15_Stages(name) ==
    LET chain == regReferences[name].chain
    IN /\ \A i \in 1..Len(chain) :
            /\ chain[i] \in DOMAIN regReferences
            /\ regReferences[chain[i]].anon
            /\ regReferences[chain[i]].source =
                 IF i = 1 THEN regReferences[name].source ELSE chain[i - 1]
       /\ ChainPathlist(chain) = chain[Len(chain)]

C15_Built ==
    /\ regCall.op = "chain"
    /\ regCall.outcome = "ok"

C15_Refused ==
    /\ regCall.op = "chain"
    /\ regCall.name \notin regCall.before
    /\ \/ regCall.entries = <<>>
       \/ \E k \in 1..Len(regCall.entries) : regCall.entries[k] \in {"named", "sourced"}

\* C15: a ChainReference that was built has one stage for each of its
\* n >= 1 entries; stage 1 has the source of the chain, stage i+1 has the
\* generated name of stage i as its source, every stage is registered under
\* its generated name, and the pathlist of the chain is the pathlist of
\* stage n.  A chain with no entries, or with an entry that gives a 'name'
\* or a 'source', is refused with a configuration error.
C15_ChainStages ==
    /\ \A name \in DOMAIN regReferences :
           regReferences[name].chain # <<>> => C15_Stages(name)
    /\ C15_Built =>
           /\ Len(regReferences[regCall.name].chain) = Len(regCall.entries)
           /\ Len(regCall.entries) >= 1
    /\ C15_Refused =>
           regCall.outcome \in {"InvalidReferenceError", "InvalidDefinitionError"}

\* a chain of two stages was built
C15_Witness ==
    /\ C15_Built
    /\ Len(regReferences[regCall.name].chain) = 2
    /\ regReferences[regReferences[regCall.name].chain[2]].source
         = regReferences[regCall.name].chain[1]

\* a Reference or an Analysis was constructed under a free name
C18_Constructed ==
    /\ regCall.op = "construct"
    /\ regCall.kind # "other"
    /\ regCall.name \notin regCall.before

\* the source of a registered definition was read and something was found
C18_Resolved ==
    /\ regCall.op = "resolve"
    /\ regCall.outcome # "None"

SeqOf(name) == EntryOf(regReferences, regAnalyses, name)[2].seq

\* C18 as the claim states it: constructing a definition whose source names
\* nothing constructed so far fails, and a source that a definition resolves
\* was constructed before the definition.
C18_FailsAsClaimed ==
    /\ C18_Constructed /\ regCall.source \notin regCall.before \cup {regCall.name}
         => regCall.outcome # "ok"
    /\ C18_Resolved => SeqOf(regCall.source) < SeqOf(regCall.name)

\* C18, amended: a Reference or Analysis whose source names nothing that is
\* constructed yet is constructed without error; its construction fails
\* only when it is a Reference and its source names an Analysis.
\* The source is looked up by name each time it is read: the read finds
\* whatever holds the name then, whenever that was constructed, and finds
\* nothing exactly when nothing holds the name.
C18_LateResolution ==
    /\ C18_Constructed /\ regCall.source \notin regCall.before \cup {regCall.name}
         => regCall.outcome = "ok"
    /\ C18_Constructed /\ regCall.outcome # "ok"
         => regCall.kind = "reference" /\ regCall.source \in DOMAIN regAnalyses
    /\ regCall.op = "resolve"
         => (regCall.outcome # "None" <=> regCall.source \in Held)

\* a definition read its source and found one constructed after itself
C18_Witness ==
    /\ C18_Resolved
    /\ SeqOf(regCall.source) > SeqOf(regCall.name)

(***************************************************************************)
(* lines.py, reference/path.py: line numbers.  The file under the root     *)
(* path holds fileSize bytes; newlines is the set of the positions,        *)
(* counted from 1, that hold a newline.  The paths are the chain of        *)
(* SpecPath, each made from the one before by line_iterator or by          *)
(* regex_iterator.                                                         *)
(***************************************************************************)
\* the longest file whose lines are numbered
MaxLinedLen == 3

\* PathLineOffsets.detect_offsets: 0, the offset after every newline, and
\* the size of the file unless the last offset is the size; None, here the
\* empty set, when the file cannot be opened
detect_offsets == IF fileOk THEN {0} \cup newlines \cup {fileSize} ELSE {}

\* PathLineOffsets.line_offsets, nothing being cached under .SAUCERY_LINES
line_offsets == detect_offsets

\* the None that PathLineOffsets.line returns, among the line numbers
NoLine == 0 - 1

\* the bound method self.last_line, among the line numbers
LastLineMethod == 0 - 2

\* PathLineOffsets.line: how many offsets of the table come before the first
\* one that is greater, None when none is greater
line(o) ==
    IF \E t \in line_offsets : t > o
    THEN Cardinality({ t \in line_offsets : t <= o })
    ELSE NoLine

\* PathLineOffsets.line_range: self.last_line is the bound method, not its
\* result
line_range(o, len) ==
    LET last == line(o + Max(len, 1) - 1)
    IN <<line(o), IF last \notin {NoLine, 0} THEN last ELSE LastLineMethod>>

first_line_number(ps, i) == line_range(offset(ps, i), length(ps, i))[1]

last_line_number(ps, i) == line_range(offset(ps, i), length(ps, i))[2]

\* ReferencePath.line_iterator of paths[i]: the offsets of the table past
\* the offset of the path, counted from it
LineEnds(ps, i) == { t - offset(ps, i) : t \in { u \in line_offsets : u > offset(ps, i) } }

InitLines ==
    /\ fileOk \in BOOLEAN
    /\ fileSize \in IF fileOk THEN 0..MaxLinedLen ELSE {0}
    /\ newlines \in SUBSET (1..fileSize)
    /\ paths = <<NewPath(0, 0, TRUE)>>
    /\ sliceCall = [stage |-> "none"]
    /\ IdleDef
    /\ IdleCmp
    /\ IdleEval
    /\ IdleList
    /\ IdleReg
    /\ IdleExec
    /\ IdleFiles
    /\ IdleSos
    /\ IdlePair
    /\ IdleProc

\* one step of the loop of paths[i].line_iterator: the path of the line
\* that ends at e is ReferencePath(self, offset=pos, length=e - pos), pos
\* being the end of the line before
LineSplit(i, e) ==
    /\ i \in 1..Len(paths)
    /\ e \in LineEnds(paths, i)
    /\ LET before == { t \in LineEnds(paths, i) : t < e }
           pos == IF before = {} THEN 0
                  ELSE CHOOSE t \in before : \A u \in before : u <= t
       IN Slice(i, pos, e - pos) \/ SliceRaises(i, pos, e - pos)

\* one step of the loop of paths[i].regex_iterator: a match of the pattern
\* in the value of the path that is not empty, from start to end
RegexMatch(i, start, end) ==
    /\ i \in 1..Len(paths)
    /\ value(paths, i).kind = "bytes"
    /\ 0 <= start /\ start < end /\ end <= Len(value(paths, i).bytes)
    /\ Slice(i, start, end - start) \/ SliceRaises(i, start, end - start)

NextLines ==
    /\ \E i \in 1..Len(paths) :
          \/ \E e \in 1..MaxLinedLen : LineSplit(i, e)
          \/ \E start \in 0..MaxLinedLen, end \in 1..MaxLinedLen :
                RegexMatch(i, start, end)
    /\ UNCHANGED <<defVars, cmpVars, evalVars, listVars, regVars, lineVars, execVars, fsVars, sosVars, pairVars, procVars>>

SpecLines == InitLines /\ [][NextLines]_vars

\* the 1-based number of the line of the file that holds the byte at
\* offset b
LineOfByte(b) == 1 + Cardinality({ n \in newlines : n <= b })

\* the last path was derived from the file
C16_Derived ==
    /\ sliceCall.stage = "done"
    /\ sliceCall.outcome = "ok"

C16_RightNumbers ==
    LET i == Len(paths)
    IN /\ length(paths, i) >= 1
       /\ first_line_number(paths, i) = LineOfByte(offset(paths, i))
       /\ last_line_number(paths, i)
            = LineOfByte(offset(paths, i) + length(paths, i) - 1)

\* C16: a path can be derived from a path by a line split or by a regex
\* match, whatever derived that one, and the first and last line numbers of
\* the derived path are the 1-based numbers, in the file, of the lines that
\* hold its first and its last byte.
C16_LineNumbers ==
    /\ sliceCall.stage = "done" => sliceCall.outcome = "ok"
    /\ C16_Derived => C16_RightNumbers

\* the numbers of the paths derived in one step from the file are right
C16_FirstLevel ==
    C16_Derived => C16_RightNumbers

(***************************************************************************)
(* reference/parse.py, sos/persistent.py: ExecReference and JqReference.   *)
(* execCache is the directory analysis_files, which outlives the           *)
(* References: a Reference constructed later under the same name finds     *)
(* what an earlier one left there.                                         *)
(***************************************************************************)
ExecNames == {"e1", "e2"}

\* what the program writes to its stdout
Stdouts == {<<>>, <<1>>}

\* the value of the source: None, or bytes
SourceValues == {NoneValue, Bytes(<<2>>)}

\* ExecReference.transform, JqReference inheriting it
transform(returncode, stdout) ==
    IF returncode # 0 THEN NoneValue ELSE Bytes(stdout)

\* DirDict.__setitem__ leaving the directory alone when the value is None
DirDictSetItem_KeepOnNone(dir, key, v) ==
    IF v = NoneValue THEN dir ELSE (key :> v.bytes) @@ dir

\* DirDict.__setitem__: None deletes the file of the key, bytes are written
\* to it
DirDictSetItem(dir, key, v) ==
    IF v = NoneValue THEN [k \in DOMAIN dir \ {key} |-> dir[k]]
    ELSE (key :> v.bytes) @@ dir

\* ExecReference.parse_none_value: whether the program runs without a source
parse_none_value(ref) == ~ref.source

\* ParseReference.pathlist and TransformReference.parse: whether transform()
\* is called, given the value of the source (None without a source)
Transforms(ref, srcValue) ==
    parse_none_value(ref) \/ (IF ref.source THEN srcValue ELSE NoneValue) # NoneValue

\* the value of the Reference: None when its pathlist is None, else the
\* value of the one path analysis_files/name, None when there is no file
ExecValue(dir, ref, transformed) ==
    IF transformed /\ ref.name \in DOMAIN dir THEN Bytes(dir[ref.name])
    ELSE NoneValue

InitExec ==
    /\ execCache = <<>>
    /\ execRef = [setup |-> "none"]
    /\ execRead = [stage |-> "none"]
    /\ IdleDef
    /\ IdlePath
    /\ IdleCmp
    /\ IdleEval
    /\ IdleList
    /\ IdleReg
    /\ IdleLines
    /\ IdleFiles
    /\ IdleSos
    /\ IdlePair
    /\ IdleProc

\* Definition(d, reductions) of an ExecReference or a JqReference: setup()
\* checks the fields ('source' is required of a JqReference) and then takes
\* self.exec_cmd, which raises when which() finds no program
ConstructExec(name, type, source, found) ==
    /\ execRef' = [name |-> name, type |-> type, source |-> source, found |-> found,
                   setup |-> IF (type = "jq" /\ ~source) \/ ~found
                             THEN "InvalidReferenceError" ELSE "ok"]
    /\ execRead' = [stage |-> "none"]
    /\ UNCHANGED execCache

\* the most readings of the value of one Reference
MaxReads == 2

\* ParseReference.pathlist as a plain property: parse() at every reading
Parses_EveryRead(first) == TRUE

\* ParseReference.pathlist is a cached_property: parse() is called at the
\* first reading only
Parses(first) == first

\* the value of the Reference is read: pathlist (with parse and transform
\* when it is not cached yet), and the value of the pathlist
ReadExecValue(srcValue, returncode, stdout) ==
    /\ execRef.setup = "ok"
    /\ execRead.stage = "done" => execRead.reads < MaxReads
    /\ LET first == execRead.stage = "none"
           ran == Parses(first) /\ Transforms(execRef, srcValue)
           dir == IF ran THEN DirDictSetItem(execCache, execRef.name,
                                             transform(returncode, stdout))
                  ELSE execCache
       IN /\ execCache' = dir
          /\ execRead' =
               IF Parses(first)
               THEN [stage |-> "done", ran |-> ran,
                     returncode |-> IF ran THEN returncode ELSE 0,
                     stale |-> execRef.name \in DOMAIN execCache,
                     value |-> ExecValue(dir, execRef, ran),
                     reads |-> IF first THEN 1 ELSE execRead.reads + 1,
                     runs |-> (IF first THEN 0 ELSE execRead.runs)
                                + (IF ran THEN 1 ELSE 0),
                     src |-> srcValue, now |-> ran]
               ELSE [execRead EXCEPT !.value = ExecValue(dir, execRef, execRead.ran),
                                     !.reads = @ + 1, !.src = srcValue,
                                     !.now = FALSE]
    /\ UNCHANGED execRef

NextExec ==
    /\ \/ \E name \in ExecNames, type \in {"exec", "jq"}, source \in BOOLEAN,
            found \in BOOLEAN : ConstructExec(name, type, source, found)
       \/ \E srcValue \in SourceValues, returncode \in {0, 1}, stdout \in Stdouts :
            ReadExecValue(srcValue, returncode, stdout)
    /\ UNCHANGED <<defVars, pathVars, cmpVars, evalVars, listVars, regVars, lineVars, fsVars, sosVars, pairVars, procVars>>

SpecExec == InitExec /\ [][NextExec]_vars

\* the program ran and exited non-zero
C17_Failed ==
    /\ execRead.stage = "done"
    /\ execRead.ran
    /\ execRead.returncode # 0

\* C17: an ExecReference or JqReference whose program is not found fails at
\* setup with a configuration error.  When the program runs and exits
\* non-zero, the value of the Reference is None, nothing is raised, and
\* analysis_files holds no entry under the name of the Reference.
C17_ExecFailure ==
    /\ execRef.setup # "none" /\ ~execRef.found
         => execRef.setup = "InvalidReferenceError"
    /\ C17_Failed =>
         /\ execRead.value = NoneValue
         /\ execRef.name \notin DOMAIN execCache

\* the program failed where an earlier run had left an entry under the name
C17_Witness ==
    /\ C17_Failed
    /\ execRead.stale

(***************************************************************************)
(* sos/sos.py, reference/file.py: files of the bundle.  A path is the      *)
(* sequence of its components from the root of the file system.  The       *)
(* component "l" is a symbolic link to linkTarget wherever it stands, ".."  *)
(* is the parent, every other component is a plain name.                   *)
(***************************************************************************)
\* the most components of a file name or a glob pattern
MaxDepth == 2

workdir == <<"w">>

filesdir == workdir \o <<"files">>

\* where the link can point: into the files directory, to the work
\* directory above it, out of the bundle
LinkTargets == {filesdir \o <<"a">>, workdir, <<"etc">>}

\* a relative name, given with or without leading slashes: lstrip('/')
\* leaves its components
FileNames == UNION { [1..n -> {"a", "..", "l"}] : n \in 0..MaxDepth }

\* a glob pattern
Patterns == UNION { [1..n -> {"a", "..", "l", "*"}] : n \in 0..MaxDepth }

\* command=None, a name, the parent, a link, a name holding a '/'
Commands == {<<>>, <<"c">>, <<"..">>, <<"l">>, <<"c", "a">>}

IsPrefix(a, b) == Len(a) <= Len(b) /\ SubSeq(b, 1, Len(a)) = a

\* Path.resolve(): the link is followed, ".." goes to the parent
RECURSIVE resolve(_, _)
resolve(p, k) ==
    IF k = 0 THEN <<>>
    ELSE LET dir == resolve(p, k - 1)
         IN IF p[k] = "l" THEN linkTarget
            ELSE IF p[k] = ".." THEN SubSeq(dir, 1, Len(dir) - 1)
            ELSE Append(dir, p[k])

\* SOS.under_filesdir comparing the path as it is written
under_filesdir_Unresolved(p) == IsPrefix(filesdir, p)

\* SOS.under_filesdir: Path(path).resolve().relative_to(self.filesdir.resolve())
under_filesdir(p) == IsPrefix(resolve(filesdir, Len(filesdir)), resolve(p, Len(p)))

NoDir == <<"None">>

\* SOS.commanddir, and the choice of the directory in file() and fileglob()
commanddir(command) ==
    IF command = <<>> THEN filesdir
    ELSE IF Len(command) > 1 THEN NoDir
    ELSE LET d == filesdir \o <<"sos_commands">> \o command
         IN IF under_filesdir(d) THEN d ELSE NoDir

\* SOS.file: the path, or None
file(filename, command) ==
    LET d == commanddir(command)
    IN IF d = NoDir THEN [kind |-> "None", paths |-> {}]
       ELSE IF ~under_filesdir(d \o filename) THEN [kind |-> "None", paths |-> {}]
       ELSE [kind |-> "path", paths |-> {d \o filename}]

\* Path.glob: the paths a pattern can match under d, "*" standing for a name
RECURSIVE glob(_, _, _)
glob(d, pattern, k) ==
    IF k = 0 THEN {d}
    ELSE LET parents == glob(d, pattern, k - 1)
         IN IF pattern[k] = "*"
            THEN { Append(q, n) : q \in parents, n \in {"a", "l"} }
            ELSE { Append(q, pattern[k]) : q \in parents }

\* SOS.fileglob: the matches that are under the files directory, or None;
\* Path.glob raises ValueError for an empty pattern
fileglob(pattern, command) ==
    LET d == commanddir(command)
    IN IF d = NoDir THEN [kind |-> "None", paths |-> {}]
       ELSE IF pattern = <<>> THEN [kind |-> "ValueError", paths |-> {}]
       ELSE [kind |-> "list",
             paths |-> { q \in glob(d, pattern, Len(pattern)) : under_filesdir(q) }]

\* FileReference.pathlist: with 'noglob' the files that file() returns are
\* wrapped by ReferencePathList(paths) without a sos, which raises ValueError
\* for the first path; without 'noglob' FileReference.fileglob reads the
\* name 'source', which it does not define
pathlist(source, noglob) ==
    IF ~noglob THEN [kind |-> "NameError", paths |-> {}]
    ELSE IF file(source, <<>>).paths # {} THEN [kind |-> "ValueError", paths |-> {}]
    ELSE [kind |-> "list", paths |-> {}]

InitFiles ==
    /\ linkTarget \in LinkTargets
    /\ fsCall = [op |-> "none"]
    /\ IdleDef
    /\ IdlePath
    /\ IdleCmp
    /\ IdleEval
    /\ IdleList
    /\ IdleReg
    /\ IdleLines
    /\ IdleExec
    /\ IdleSos
    /\ IdlePair
    /\ IdleProc

CallFile(filename, command) ==
    /\ fsCall' = [op |-> "file", name |-> filename, command |-> command,
                  result |-> file(filename, command)]
    /\ UNCHANGED linkTarget

CallFileglob(pattern, command) ==
    /\ fsCall' = [op |-> "fileglob", name |-> pattern, command |-> command,
                  result |-> fileglob(pattern, command)]
    /\ UNCHANGED linkTarget

ReadPathlist(source, noglob) ==
    /\ fsCall' = [op |-> "pathlist", name |-> source, command |-> <<>>,
                  result |-> pathlist(source, noglob)]
    /\ UNCHANGED linkTarget

NextFiles ==
    /\ \/ \E filename \in FileNames, command \in Commands : CallFile(filename, command)
       \/ \E pattern \in Patterns, command \in Commands : CallFileglob(pattern, command)
       \/ \E source \in FileNames, noglob \in BOOLEAN : ReadPathlist(source, noglob)
    /\ UNCHANGED <<defVars, pathVars, cmpVars, evalVars, listVars, regVars, lineVars,
                   execVars, sosVars, pairVars, procVars>>

SpecFiles == InitFiles /\ [][NextFiles]_vars

\* where a path is once the link and the ".." are followed
Location(p) == resolve(p, Len(p))

\* C19: every path that file() returns, every entry that fileglob() returns
\* and every path of the pathlist of a FileReference is located inside the
\* files directory of the bundle, and a command name holding a '/' gets no
\* path at all.
C19_InsideFilesDir ==
    fsCall.op # "none" =>
        /\ \A p \in fsCall.result.paths : IsPrefix(filesdir, Location(p))
        /\ Len(fsCall.command) > 1 => fsCall.result.kind = "None"

\* a name that leads out of the files directory through ".." or through the
\* link got no path
C19_Witness ==
    /\ fsCall.op = "file"
    /\ fsCall.command = <<>>
    /\ ~IsPrefix(filesdir, Location(filesdir \o fsCall.name))
    /\ fsCall.result.kind = "None"

(***************************************************************************)
(* analysis/conclusion.py, analysis/path.py: the three flags.              *)
(***************************************************************************)
\* Conclusion.normal, abnormal, unknown: analysis.normal is True, is False,
\* is None; reading analysis.normal runs the analysis, and what that raises
\* comes out of the flag
ConclusionFlag(as, i, is) ==
    LET o == Conclude(as, i).outcome
    IN IF o.raised # "no" THEN o.raised ELSE Tri(o.normal = is)

\* the flags of the conclusion of the i-th analysis that are True
TrueFlags(as, i) ==
    { is \in {"True", "False", "None"} : ConclusionFlag(as, i, is) = "True" }

\* C20, for a Conclusion: whatever the analyses and the values of their
\* sources, exactly one of normal, abnormal and unknown is true in the
\* conclusion of every analysis, and unknown is the one exactly when the
\* analysis could not give a result.
C20_ExactlyOneFlag ==
    \A i \in 1..Len(analyses) :
        /\ Cardinality(TrueFlags(analyses, i)) = 1
        /\ ConclusionFlag(analyses, i, "None") = "True"
             <=> Conclude(analyses, i).outcome.normal = "None"

\* ReferencePathListResult._value: None for no pathlist and for an empty one
Result_value(ps) == IF ps = <<>> THEN NoneValue ELSE ListValue(ps)

\* ReferencePathListResult.unknown
Result_unknown(ps) == Result_value(ps) = NoneValue

\* ReferencePathListResult._expected: no path of the list has a value
Result_expected(ps) == \A i \in 1..Len(ps) : PathValue(ps[i]) = NoneValue

\* ReferencePathListResult.normal
Result_normal(ps) == ~Result_unknown(ps) /\ Result_expected(ps)

\* ReferencePathListResult.abnormal
Result_abnormal(ps) == ~Result_unknown(ps) /\ ~Result_expected(ps)

\* for a ReferencePathListResult over a list whose value can be read,
\* exactly one of the three flags is true
C20_PathListResult ==
    ListValue(plist).kind \in {"bytes", "None"} =>
        Cardinality({ f \in {"normal", "abnormal", "unknown"} :
            \/ f = "normal" /\ Result_normal(plist)
            \/ f = "abnormal" /\ Result_abnormal(plist)
            \/ f = "unknown" /\ Result_unknown(plist) }) = 1

(***************************************************************************)
(* analysis.py, reductions.py, sos/analyse.py: reading and the registry.   *)
(***************************************************************************)
\* the names Reductions._analyses holds, in insertion order
RegisteredAnalyses(as) == [i \in 1..Len(as) |-> as[i].name]

\* a step that reads a conclusion or belongs to the gathering loop
ReadingStep == lastRead' # lastRead \/ gather' # gather

\* C23: reading results or normal of an Analysis, and every turn of the loop
\* that gathers the conclusions, leaves the names registered in the
\* Reductions as they were, and the loop over the registry is never broken
\* off by the registry changing under it.
C23_ReadingKeepsRegistry ==
    /\ [][ReadingStep => RegisteredAnalyses(analyses') = RegisteredAnalyses(analyses)]_vars
    /\ [](gather.state # "RuntimeError")

(***************************************************************************)
(* C29: when a list whose value is v is sliced with offset o >= 0 and      *)
(* length l >= 0, the value of the slice is v[o:o+l], and v[o:] for l = 0, *)
(* also when the range begins in one path of the list and ends in a later  *)
(* one.                                                                    *)
(***************************************************************************)
C29_ListSliceValue ==
    (/\ listCall.stage = "slice"
     /\ listCall.o >= 0
     /\ listCall.l >= 0
     /\ \A i \in 1..Len(listCall.of) : ~listCall.of[i].ref
     /\ ListValue(listCall.of).kind = "bytes")
    =>
      LET v == ListValue(listCall.of).bytes
      IN /\ listCall.raised = "no"
         /\ ListValue(plist) =
              Bytes(PySlice(v, listCall.o,
                            IF listCall.l = 0 THEN Len(v) ELSE listCall.o + listCall.l))

(***************************************************************************)
(* C24: an ExecReference or JqReference that has a source never runs its   *)
(* program at a reading where the value of the source is None, and runs it *)
(* at most once however often its value is read.                           *)
(***************************************************************************)
C24_RunsAtMostOnce ==
    (execRead.stage = "done" /\ execRef.source) =>
        /\ execRead.src = NoneValue => ~execRead.now
        /\ execRead.runs <= 1
        /\ execRead.runs = 0 => ~execRead.ran

\* the value was read a second time after the program had run
C24_Witness ==
    /\ execRead.stage = "done"
    /\ execRef.source
    /\ execRead.reads = 2
    /\ execRead.runs = 1


\* ---------------------------------------------------------------------
\* SpecSos: the lifecycle of one bundle (src/saucery/sos/sos.py): extract,
\* squash, mount, unmount and analyse over the flags persisted in its work
\* directory, its files directory and its squash image.

MaxCases == 2  \* how many distinct case values

MaxCustomers == 1  \* how many distinct customer values

MaxConclusions == 1  \* how many distinct lists of conclusions

Cases == 1..MaxCases

Customers == 1..MaxCustomers

ConclusionLists == 1..MaxConclusions

NoValue == 0  \* what an unset FileProperty reads as: ''

Outcomes == {"ok", "SOSAnalysisError", "raise"}  \* how SOSAnalysis.analyse() ends

\* SauceryTest.testFull: the calls of the full lifecycle, in order
Lifecycle == <<"extract", "analyse", "squash", "mount", "analyse">>

Strayed == Len(Lifecycle) + 1  \* the calls made so far are not a prefix of the full lifecycle

\* filesdir.exists()
exists(s) == s.filesdir # "none"

\* SOS.mounted: filesdir.is_mount()
mounted(s) == s.filesdir = "mount"

\* what the work directory holds: everything but the dry_run of the object
Persisted(s) ==
    [f \in {"invalid", "extracted", "squashed", "analysed", "conclusions", "case",
            "customer", "filesdir", "squashimg", "analysis_files"} |-> s[f]]

Untouched(s) == [s |-> s, ran |-> FALSE, raised |-> FALSE]

\* SOS._unmount and unmount(): uok is whether umount succeeds
unmount(s, uok) ==
    IF ~mounted(s) THEN Untouched(s)
    ELSE IF s.dry_run THEN Untouched(s)
    ELSE IF ~uok THEN [s |-> s, ran |-> TRUE, raised |-> FALSE]
    ELSE [s |-> [s EXCEPT !.filesdir = "none"], ran |-> TRUE, raised |-> FALSE]

\* the statement shutil.rmtree(self.filesdir) of _extract and _mount, unguarded
rmtree_Always(s) ==
    [s EXCEPT !.filesdir = "none"]

\* if not self.dry_run: shutil.rmtree(self.filesdir)
rmtree(s) ==
    IF s.dry_run THEN s ELSE [s EXCEPT !.filesdir = "none"]

\* the block of _extract and of _mount over an existing files directory:
\* go is whether the method goes on after it
existing_NeedsDir(s, force, uok) ==
    IF ~exists(s) THEN [go |-> FALSE, s |-> s]
    ELSE IF force \/ ~(s.extracted \/ mounted(s))
         THEN IF mounted(s)
              THEN LET u == unmount(s, uok).s
                   IN [go |-> ~mounted(u), s |-> u]
              ELSE [go |-> TRUE, s |-> rmtree(s)]
         ELSE [go |-> FALSE, s |-> s]

existing(s, force, uok) ==
    IF ~exists(s) THEN [go |-> TRUE, s |-> s]
    ELSE IF force \/ ~(s.extracted \/ mounted(s))
         THEN IF mounted(s)
              THEN LET u == unmount(s, uok).s
                   IN [go |-> ~mounted(u), s |-> u]
              ELSE [go |-> TRUE, s |-> rmtree(s)]
         ELSE [go |-> FALSE, s |-> s]

\* SOS._extract and extract(): xok is whether SOSExtraction.extract() succeeds
extract(s, reextract, uok, xok) ==
    IF s.invalid /\ ~reextract THEN Untouched(s)
    ELSE IF s.squashed /\ ~reextract THEN Untouched(s)
    ELSE LET r == existing(s, reextract, uok)
         IN IF ~r.go \/ s.dry_run THEN Untouched(r.s)
            ELSE LET c == [r.s EXCEPT !.extracted = FALSE, !.invalid = FALSE]
                 IN [s |-> IF xok THEN [c EXCEPT !.filesdir = "dir", !.extracted = TRUE]
                           ELSE [c EXCEPT !.invalid = TRUE],
                     ran |-> TRUE, raised |-> FALSE]

\* SOS._squash and squash(): qok is whether mksquashfs succeeds, partial
\* whether a failed mksquashfs leaves an image behind; the final rmtree
\* of a mounted, read-only files directory raises and removes nothing
squash(s, resquash, qok, partial) ==
    IF s.squashed /\ ~resquash THEN Untouched(s)
    ELSE IF ~exists(s) \/ ~s.extracted THEN Untouched(s)
    ELSE IF s.dry_run THEN Untouched(s)
    ELSE LET c == [s EXCEPT !.squashimg = FALSE, !.squashed = FALSE]
         IN IF ~qok
            THEN [s |-> [c EXCEPT !.squashimg = partial], ran |-> TRUE, raised |-> FALSE]
            ELSE [s |-> [c EXCEPT !.squashimg = TRUE, !.squashed = TRUE,
                                  !.extracted = FALSE,
                                  !.filesdir = IF mounted(s) THEN "mount" ELSE "none"],
                  ran |-> TRUE, raised |-> mounted(s)]

\* SOS._mount and mount(): mok is whether squashfuse succeeds; SOSSquash.mount
\* makes the directory before it runs squashfuse
mount(s, remount, uok, mok) ==
    IF ~s.squashimg \/ ~s.squashed THEN Untouched(s)
    ELSE LET r == existing(s, remount, uok)
         IN IF ~r.go \/ s.dry_run THEN Untouched(r.s)
            ELSE [s |-> [r.s EXCEPT !.filesdir = IF mok THEN "mount" ELSE "dir"],
                  ran |-> TRUE, raised |-> FALSE]

\* the first test of _analyse, negated: there is something to analyse
analysable_Exists(s) ==
    exists(s)

analysable(s) ==
    exists(s) /\ (s.extracted \/ mounted(s))

\* the value _analyse gives case and customer after a successful analysis
keep_Replace(old, detected) ==
    detected

keep(old, detected) ==
    IF old # NoValue THEN old ELSE detected

\* SOS._analyse and analyse(): outcome is how SOSAnalysis.analyse() ends, a the
\* case, customer and conclusions it found, af whether it left analysis files
analyse(s, reanalyse, outcome, a, af) ==
    IF ~analysable(s) THEN Untouched(s)
    ELSE IF s.analysed /\ ~reanalyse THEN Untouched(s)
    ELSE IF s.dry_run THEN Untouched(s)
    ELSE LET c == [s EXCEPT !.analysed = FALSE, !.conclusions = NoValue,
                            !.analysis_files = af]
         IN IF outcome # "ok"
            THEN [s |-> c, ran |-> TRUE, raised |-> outcome = "raise"]
            ELSE [s |-> [c EXCEPT !.case = keep(s.case, a.case),
                                  !.customer = keep(s.customer, a.customer),
                                  !.conclusions = a.conclusions,
                                  !.analysed = TRUE],
                  ran |-> TRUE, raised |-> FALSE]

\* how far along the full lifecycle the calls made so far are
Advance(op, plain) ==
    IF /\ sosCall.stage < Len(Lifecycle)
       /\ Lifecycle[sosCall.stage + 1] = op
       /\ plain /\ ~bundle.dry_run
    THEN sosCall.stage + 1
    ELSE Strayed

Called(op, force, r, ret, plain) ==
    /\ bundle' = r.s
    /\ sosCall' = [op |-> op, force |-> force, pre |-> bundle, ran |-> r.ran,
                   raised |-> r.raised, ret |-> ret, stage |-> Advance(op, plain)]

\* a bundle whose sosreport has just been shelved: no work done on it yet; its
\* case and customer may have been set by hand
InitSos ==
    /\ \E dry \in BOOLEAN, cs \in {NoValue} \cup Cases, cu \in {NoValue} \cup Customers :
         bundle = [open |-> TRUE, dry_run |-> dry, invalid |-> FALSE, extracted |-> FALSE,
                squashed |-> FALSE, analysed |-> FALSE, conclusions |-> NoValue,
                case |-> cs, customer |-> cu, filesdir |-> "none",
                squashimg |-> FALSE, analysis_files |-> FALSE]
    /\ sosCall = [op |-> "none", stage |-> 0]
    /\ IdleDef
    /\ IdlePath
    /\ IdleCmp
    /\ IdleEval
    /\ IdleList
    /\ IdleReg
    /\ IdleLines
    /\ IdleExec
    /\ IdleFiles
    /\ IdlePair
    /\ IdleProc

\* SOS.__init__: another SOS object over the same work directory
ConstructSos(dry) ==
    /\ bundle' = [bundle EXCEPT !.dry_run = dry]
    /\ sosCall' = [op |-> "construct", stage |-> sosCall.stage]

CallExtract(reextract, uok, xok) ==
    LET r == extract(bundle, reextract, uok, xok)
    IN Called("extract", reextract, r, r.s.extracted, ~reextract /\ xok)

CallSquash(resquash, qok, partial) ==
    LET r == squash(bundle, resquash, qok, partial)
    IN Called("squash", resquash, r, r.s.squashed, ~resquash /\ qok)

CallMount(remount, uok, mok) ==
    LET r == mount(bundle, remount, uok, mok)
    IN Called("mount", remount, r, mounted(r.s), ~remount /\ mok)

CallUnmount(uok) ==
    LET r == unmount(bundle, uok)
    IN Called("unmount", FALSE, r, ~mounted(r.s), FALSE)

\* a failed analysis hands nothing over
NothingFound == [case |-> NoValue, customer |-> NoValue, conclusions |-> NoValue]

CallAnalyse(reanalyse, outcome, a, af) ==
    LET r == analyse(bundle, reanalyse, outcome, a, af)
    IN Called("analyse", reanalyse, r, r.s.analysed, ~reanalyse /\ outcome = "ok")

NextSos ==
    /\ \/ \E dry \in BOOLEAN : ConstructSos(dry)
       \/ \E reextract \in BOOLEAN, uok \in BOOLEAN, xok \in BOOLEAN :
            CallExtract(reextract, uok, xok)
       \/ \E resquash \in BOOLEAN, qok \in BOOLEAN, partial \in BOOLEAN :
            CallSquash(resquash, qok, partial)
       \/ \E remount \in BOOLEAN, uok \in BOOLEAN, mok \in BOOLEAN :
            CallMount(remount, uok, mok)
       \/ \E uok \in BOOLEAN : CallUnmount(uok)
       \/ \E reanalyse \in BOOLEAN, af \in BOOLEAN,
             cs \in {NoValue} \cup Cases, cu \in {NoValue} \cup Customers,
             co \in ConclusionLists :
            CallAnalyse(reanalyse, "ok",
                        [case |-> cs, customer |-> cu, conclusions |-> co], af)
       \/ \E reanalyse \in BOOLEAN, outcome \in Outcomes \ {"ok"}, af \in BOOLEAN :
            CallAnalyse(reanalyse, outcome, NothingFound, af)
    /\ UNCHANGED <<defVars, pathVars, cmpVars, evalVars, listVars, regVars, lineVars,
                   execVars, fsVars, pairVars, procVars>>

SpecSos == InitSos /\ [][NextSos]_vars

\* C25: after any calls, with any force flags and any step failing, the
\* persisted flags are consistent: never both extracted and squashed, never
\* both invalid and extracted, mounted only while squashed
C25_FlagsConsistent ==
    /\ ~(bundle.extracted /\ bundle.squashed)
    /\ ~(bundle.invalid /\ bundle.extracted)
    /\ mounted(bundle) => bundle.squashed

\* the second of the three holds on its own
C25_NeverInvalidAndExtracted ==
    ~(bundle.invalid /\ bundle.extracted)

LifecycleOps == {"extract", "squash", "mount", "unmount", "analyse"}

\* C28: with dry_run set, a call of extract, squash, mount, unmount or
\* analyse, with any force flag and from any state, leaves the flags, the
\* stored conclusions, the files directory, the squash image and the mount
\* state as they were
C28_DryRunChangesNothing ==
    (sosCall.op \in LifecycleOps /\ sosCall.pre.dry_run) =>
        Persisted(bundle) = Persisted(sosCall.pre)

\* a forced dry-run extract over a mounted bundle, and one over extracted files
C28_Witness ==
    /\ sosCall.op = "extract" /\ sosCall.force /\ sosCall.pre.dry_run
    /\ exists(sosCall.pre) /\ ~mounted(sosCall.pre) /\ sosCall.pre.extracted

C28_WitnessMounted ==
    /\ sosCall.op \in {"extract", "mount"} /\ sosCall.force /\ sosCall.pre.dry_run
    /\ mounted(sosCall.pre)

\* C26: analyse() runs the analysis only when the files directory exists
\* and the bundle is extracted or mounted, and otherwise changes nothing and
\* returns the analysed flag as it was; on a bundle already analysed, without
\* reanalyse, it does not run the analysis and leaves analysed, conclusions
\* and the analysis files as they were
C26_AnalyseGuard ==
    sosCall.op = "analyse" =>
        LET p == sosCall.pre
            ready == p.filesdir # "none" /\ (p.extracted \/ p.filesdir = "mount")
        IN /\ sosCall.ran => ready
           /\ ~ready => /\ Persisted(bundle) = Persisted(p)
                        /\ sosCall.ret = p.analysed
           /\ (p.analysed /\ ~sosCall.force) =>
                  /\ ~sosCall.ran
                  /\ bundle.analysed = p.analysed
                  /\ bundle.conclusions = p.conclusions
                  /\ bundle.analysis_files = p.analysis_files

\* analyse() without reanalyse on an analysed bundle that holds conclusions
\* and analysis files
C26_Witness ==
    /\ sosCall.op = "analyse" /\ ~sosCall.force /\ ~sosCall.pre.dry_run
    /\ sosCall.pre.analysed /\ sosCall.pre.conclusions # NoValue
    /\ sosCall.pre.analysis_files /\ sosCall.ret

\* analyse() on a bundle whose files directory is there but which is neither
\* extracted nor mounted
C26_WitnessNotReady ==
    /\ sosCall.op = "analyse" /\ ~sosCall.pre.dry_run /\ sosCall.pre.filesdir = "dir"
    /\ ~sosCall.pre.extracted /\ ~sosCall.ran

\* C27: analyse() never replaces a case or a customer that is set, whether
\* the analysis succeeds, fails or is run again with reanalyse
C27_KeepsCaseAndCustomer ==
    sosCall.op = "analyse" =>
        /\ sosCall.pre.case # NoValue => bundle.case = sosCall.pre.case
        /\ sosCall.pre.customer # NoValue => bundle.customer = sosCall.pre.customer

\* a successful re-analysis of a bundle whose case and customer are set
C27_Witness ==
    /\ sosCall.op = "analyse" /\ sosCall.force /\ sosCall.ran /\ bundle.analysed
    /\ sosCall.pre.analysed
    /\ sosCall.pre.case # NoValue /\ sosCall.pre.customer # NoValue

\* a failed analysis of such a bundle
C27_WitnessFailed ==
    /\ sosCall.op = "analyse" /\ sosCall.ran /\ ~bundle.analysed
    /\ sosCall.pre.case # NoValue /\ sosCall.pre.customer # NoValue

\* C22: from a fresh valid bundle, with every step succeeding: extract()
\* leaves it extracted and nothing else, analyse() also analysed, squash()
\* squashed, not extracted and not mounted, mount() squashed and mounted and
\* not extracted, analyse() on the mounted bundle analysed; never invalid
C22_FullLifecycle ==
    /\ sosCall.stage \in 1..Len(Lifecycle) => ~bundle.invalid
    /\ sosCall.stage = 1 => /\ bundle.extracted /\ ~bundle.squashed
                            /\ ~mounted(bundle) /\ ~bundle.analysed
    /\ sosCall.stage = 2 => /\ bundle.extracted /\ ~bundle.squashed
                            /\ ~mounted(bundle) /\ bundle.analysed
    /\ sosCall.stage = 3 => /\ bundle.squashed /\ ~bundle.extracted /\ ~mounted(bundle)
    /\ sosCall.stage = 4 => /\ bundle.squashed /\ mounted(bundle) /\ ~bundle.extracted
    /\ sosCall.stage = 5 => /\ bundle.squashed /\ mounted(bundle) /\ ~bundle.extracted
                            /\ bundle.analysed

\* the whole lifecycle has been walked
C22_Witness ==
    sosCall.stage = Len(Lifecycle) /\ sosCall.op = "analyse"

\* ---------------------------------------------------------------------
\* SpecPair: two Reductions, one per bundle, built from the same location
\* and read by two workers whose steps interleave (reductions.py,
\* definition.py).  What they could share is Definition.SUBCLASSES, which
\* is written while the classes are defined and only read afterwards.

MaxDefs == 2  \* how many definitions the location holds

Bundles == {1, 2}

FileTexts == {"x", "y"}

LocationTypes == {"file", "eq", "nosuch"}

\* Definition.SUBCLASSES once the modules are imported: the class of a type
SUBCLASSES == [file |-> "reference", eq |-> "analysis"]

Unread == "unread"  \* a cached_property that has not been read

\* Reductions.__init__ with one pair of dicts on the class, for all instances
dicts_OnClass(b) ==
    1

\* Reductions.__init__: self._analyses = {}; self._references = {}
dicts(b) ==
    b

\* Reductions._add_definitions of the next definition d for bundle b, into
\* the dicts of h: Definition.__new__ refuses an unknown type, __init__
\* stores the definition under its name
add_definitions(h, d, b) ==
    IF d.type \notin DOMAIN SUBCLASSES
    THEN [raised |-> TRUE, rs |-> h.references, as |-> h.analyses]
    ELSE LET s == SetItem(h.references, h.analyses, d.name, SUBCLASSES[d.type],
                          [type |-> d.type, sos |-> b, value |-> Unread])
         IN [raised |-> s.raised # "no", rs |-> s.rs, as |-> s.as]

NewReductions ==
    [references |-> <<>>, analyses |-> <<>>, loaded |-> 0, raised |-> FALSE]

RECURSIVE Alone(_, _)
\* the Reductions of bundle b after n steps of _load with no other instance
Alone(b, n) ==
    IF n = 0 THEN NewReductions
    ELSE LET r == Alone(b, n - 1)
         IN IF r.raised \/ r.loaded = Len(location) THEN r
            ELSE LET a == add_definitions(r, location[r.loaded + 1], b)
                 IN [references |-> a.rs, analyses |-> a.as,
                     loaded |-> IF a.raised THEN r.loaded ELSE r.loaded + 1,
                     raised |-> a.raised]

InitPair ==
    /\ \E n \in 1..MaxDefs :
         location \in [1..n -> [name : RegNames, type : LocationTypes]]
    /\ contents \in [Bundles -> FileTexts]
    /\ instances = [b \in Bundles |-> NewReductions]
    /\ IdleDef
    /\ IdlePath
    /\ IdleCmp
    /\ IdleEval
    /\ IdleList
    /\ IdleReg
    /\ IdleLines
    /\ IdleExec
    /\ IdleFiles
    /\ IdleSos
    /\ IdleProc

\* one step of Reductions._load of bundle b: the next definition
Load(b) ==
    LET r == instances[b]
        k == dicts(b)
        a == add_definitions(instances[k], location[r.loaded + 1], b)
    IN /\ ~r.raised
       /\ r.loaded < Len(location)
       /\ instances' = [instances EXCEPT ![k].references = a.rs,
                                         ![k].analyses = a.as,
                                         ![b].loaded = IF a.raised THEN @ ELSE @ + 1,
                                         ![b].raised = a.raised]
       /\ UNCHANGED <<location, contents>>

\* the worker of bundle b reads the value of a Reference for the first time:
\* the file of the bundle the Definition was made for
ReadValue(b, name) ==
    LET k == dicts(b)
        rs == instances[k].references
    IN /\ ~instances[b].raised
       /\ instances[b].loaded = Len(location)
       /\ name \in DOMAIN rs
       /\ rs[name].value = Unread
       /\ instances' = [instances EXCEPT
                          ![k].references[name].value = contents[rs[name].sos]]
       /\ UNCHANGED <<location, contents>>

NextPair ==
    /\ \/ \E b \in Bundles : Load(b)
       \/ \E b \in Bundles, name \in RegNames : ReadValue(b, name)
    /\ UNCHANGED <<defVars, pathVars, cmpVars, evalVars, listVars, regVars, lineVars,
                   execVars, fsVars, sosVars, procVars>>

SpecPair == InitPair /\ [][NextPair]_vars

\* the steps of _load the Reductions of bundle b has taken
StepsOf(b) ==
    instances[b].loaded + (IF instances[b].raised THEN 1 ELSE 0)

\* C21: two Reductions built and read concurrently, in any interleaving, do
\* not affect each other: the names registered in each and the values its
\* Definitions cache are those of the instance running alone
C21_Independent ==
    \A b \in Bundles :
        LET r == instances[b]
            a == Alone(b, StepsOf(b))
        IN /\ DOMAIN r.references = DOMAIN a.references
           /\ DOMAIN r.analyses = DOMAIN a.analyses
           /\ r.raised = a.raised
           /\ \A n \in DOMAIN r.references :
                /\ r.references[n].type = a.references[n].type
                /\ r.references[n].value \in {Unread, contents[b]}

\* both instances are built, hold a Reference of the same name, the files of
\* the bundles differ, and each has cached its own value
C21_Witness ==
    /\ contents[1] # contents[2]
    /\ \E n \in RegNames : \A b \in Bundles :
         /\ n \in DOMAIN instances[b].references
         /\ instances[b].references[n].value = contents[b]

\* ---------------------------------------------------------------------
\* SpecProc: Saucier.process over the selected bundles (saucier.py): one
\* task per bundle, run one after the other or by a pool of workers.

MaxBundles == 2  \* how many bundles are selected

MaxWorkers == 2  \* the largest 'parallel'; 0 is parallel=False

\* Saucier._process: the steps in the order it applies them
StepOrder == <<"extract", "squash", "mount", "analyse">>

\* the steps process() was asked for, in that order
Requested(steps) ==
    SelectSeq(StepOrder, LAMBDA s : s \in steps)

\* what _process does to bundle b: the calls it makes, and whether one raised
process_task(b) ==
    LET req == Requested(batch.steps)
        k == batch.raises[b]
    IN IF k = 0 THEN [state |-> "done", log |-> req]
       ELSE [state |-> "raised", log |-> SubSeq(req, 1, k)]

InitProc ==
    /\ \E n \in 1..MaxBundles, steps \in SUBSET {"extract", "squash", "mount", "analyse"},
          parallel \in 0..MaxWorkers :
         \E raises \in [1..n -> 0..Len(Requested(steps))] :
            /\ batch = [steps |-> steps, parallel |-> parallel, raises |-> raises]
            /\ tasks = [b \in 1..n |-> [state |-> "pending", log |-> <<>>]]
    /\ processCall = [stage |-> "running"]
    /\ IdleDef
    /\ IdlePath
    /\ IdleCmp
    /\ IdleEval
    /\ IdleList
    /\ IdleReg
    /\ IdleLines
    /\ IdleExec
    /\ IdleFiles
    /\ IdleSos
    /\ IdlePair

Pending == {b \in DOMAIN tasks : tasks[b].state = "pending"}

Running == {b \in DOMAIN tasks : tasks[b].state = "running"}

NextPending == CHOOSE b \in Pending : \A c \in Pending : b <= c

\* _parallel with parallel false: 'for s in sosreports: action(s)', one
\* turn of the loop; an exception of action(s) leaves _parallel and process
Sequential ==
    /\ processCall.stage = "running"
    /\ batch.parallel = 0
    /\ Pending # {}
    /\ LET b == NextPending
       IN /\ tasks' = [tasks EXCEPT ![b] = process_task(b)]
          /\ processCall' = [stage |-> IF process_task(b).state = "raised"
                                       THEN "raised" ELSE "running"]
    /\ UNCHANGED batch

\* the loop is over: _parallel returns
ReturnSequential ==
    /\ processCall.stage = "running"
    /\ batch.parallel = 0
    /\ Pending = {}
    /\ processCall' = [stage |-> "returned"]
    /\ UNCHANGED <<batch, tasks>>

\* a worker of the ThreadPoolExecutor takes the next submitted task
Start ==
    /\ processCall.stage = "running"
    /\ batch.parallel > 0
    /\ Pending # {}
    /\ Cardinality(Running) < batch.parallel
    /\ tasks' = [tasks EXCEPT ![NextPending].state = "running"]
    /\ UNCHANGED <<batch, processCall>>

\* the worker running the task of bundle b makes the next call of _process,
\* or ends the task; an exception is kept in the future
Work(b) ==
    /\ processCall.stage = "running"
    /\ b \in Running
    /\ LET whole == process_task(b)
           k == Len(tasks[b].log)
       IN tasks' = [tasks EXCEPT ![b] =
                      IF k = Len(whole.log) THEN whole
                      ELSE [state |-> "running", log |-> SubSeq(whole.log, 1, k + 1)]]
    /\ UNCHANGED <<batch, processCall>>

\* _parallel with a pool: future.exception() and the end of the 'with' block
\* wait for every future; the exceptions are logged
ReturnParallel ==
    /\ processCall.stage = "running"
    /\ batch.parallel > 0
    /\ Pending = {} /\ Running = {}
    /\ processCall' = [stage |-> "returned"]
    /\ UNCHANGED <<batch, tasks>>

NextProc ==
    /\ \/ Sequential
       \/ ReturnSequential
       \/ Start
       \/ \E b \in DOMAIN tasks : Work(b)
       \/ ReturnParallel
    /\ UNCHANGED <<defVars, pathVars, cmpVars, evalVars, listVars, regVars, lineVars,
                   execVars, fsVars, sosVars, pairVars>>

SpecProc == InitProc /\ [][NextProc]_vars

\* the task of every bundle has ended, with the requested steps applied once
\* each, in order, up to a step of its own that raised
EveryBundleProcessed ==
    \A b \in DOMAIN tasks :
        /\ tasks[b].state \in {"done", "raised"}
        /\ tasks[b].log = process_task(b).log

\* C30: when process() ends, the requested steps have been applied to every
\* selected bundle once, in the order extract, squash, mount, analyse, and
\* every task has finished; an exception in one bundle does not keep the
\* others from being processed, with a pool and without
C30_EveryBundleProcessed ==
    processCall.stage \in {"returned", "raised"} => EveryBundleProcessed

\* with a pool of workers it is so
C30_ParallelProcessesAll ==
    (batch.parallel > 0 /\ processCall.stage \in {"returned", "raised"}) =>
        EveryBundleProcessed

\* a pool has processed two bundles, the first of which raised
C30_ParallelWitness ==
    /\ batch.parallel > 0 /\ processCall.stage = "returned"
    /\ Len(tasks) = 2 /\ tasks[1].state = "raised" /\ tasks[2].state = "done"
    /\ Len(tasks[2].log) = 4
====
